---- MODULE Spec2Model ----
(***************************************************************************)
(* Model of the hamkar backend: the JobRequest collection, the accounts    *)
(* that act on it, the authentication / role middleware and the            *)
(* job-request route handlers (routes/jobRequests.js).                     *)
(*                                                                         *)
(* Every specification interleaves requests: up to MaxInflight handlers    *)
(* are in flight, and each one advances by one database answer at a time,  *)
(* up to its next await or its response. The specifications differ in the  *)
(* routes they exercise and in the inputs they draw.                       *)
(***************************************************************************)
EXTENDS Integers, Sequences, FiniteSets, TLC

\* now is the clock: the time of the latest save() of a new document.
VARIABLES developers, employers, jobRequests, projects, inflight, last, now

vars == <<developers, employers, jobRequests, projects, inflight, last, now>>

----------------------------------------------------------------------------
(* Bounds *)

MaxRequests == 2        \* job requests created in Spec
MaxFrameRequests == 1   \* job requests created in FrameSpec
MaxConcRequests == 2    \* job requests created in ConcSpec
MaxInflight == 2        \* handlers in flight at a time

----------------------------------------------------------------------------
(* Values *)

None == "none"          \* undefined / absent field
NoDoc == [absent |-> TRUE]

DevIds == {"d1", "d2"}
EmpIds == {"e1", "e2"}
GhostId == "d9"          \* a well-formed id that no document has
ReqIds == 1..(MaxRequests + 1)   \* ids a request may name: the last one is never stored

Statuses == {"pending", "accepted", "rejected", "withdrawn"}
Terminal == {"accepted", "rejected", "withdrawn"}

\* JavaScript truthiness of a body value: undefined, '' and 0 are falsy.
Truthy(v) == v \notin {None, "", "epoch"}

IsDoc(d) == d # NoDoc

\* timestamps: true: the pre('save') hook of a new document sets createdAt
\* to the time at which save() is called.
Stamped(doc, t) == doc @@ [createdAt |-> t]

\* The times a save() called after time t may read from the clock: the
\* millisecond of t or a later one.
SaveTimes(t) == {t, t + 1}

\* The elements of a list.
SeqSet(seq) == {seq[k] : k \in 1..Len(seq)}

\* The _ids signup gives to new accounts, in the order it hands them out.
DevIdPool == <<"d3", "d4", "d5", "d6">>
EmpIdPool == <<"e3", "e4", "e5", "e6">>

\* The strings mongoose casts to an ObjectId; findById of any other string
\* throws a CastError, which the error middleware of server.js answers 500.
ObjectIds == DevIds \cup EmpIds \cup {GhostId} \cup SeqSet(DevIdPool) \cup SeqSet(EmpIdPool)

BadId == "abc"           \* a string that is no ObjectId

----------------------------------------------------------------------------
(* models/Developer.js, models/Employer.js: the email and password fields *)

\* The email setters lowercase: true and trim: true, which mongoose runs on
\* the document saved and on the filter of a query alike.
NormalizeEmail(email) ==
    CASE email \in {"A@x.com", " a@x.com"} -> "a@x.com"
      [] email = "N@x.com" -> "n@x.com"
      [] OTHER -> email

\* The schema's match on the stored email, narrower than Joi's email().
EmailMatches(email) == email # "n+1@x.com"

\* bcrypt reads the first 72 bytes of a password and ignores the rest.
\* "long72a" and "long72b" stand for two passwords of 73 to 100 characters
\* with the same first 72 bytes, "long72" for those bytes.
Bytes72(password) ==
    IF password \in {"long72a", "long72b"} THEN "long72" ELSE password

\* pre('save'): the password is stored as its bcrypt hash.
bcryptHash(password) == <<"bcrypt", Bytes72(password)>>

\* comparePassword(candidatePassword)
comparePassword(candidatePassword, stored) == stored = bcryptHash(candidatePassword)

\* A getPublicProfile that returns toObject() as it is.
getPublicProfileWhole(doc) == doc

\* getPublicProfile(): toObject() without the keys password and __v.
getPublicProfile(doc) == [f \in DOMAIN doc \ {"password", "__v"} |-> doc[f]]

----------------------------------------------------------------------------
(* models/Developer.js: the profile fields and profileCompletion *)

NoNumber == -1           \* a Number field that is not set (undefined)

\* The profile fields of a new document: the names come from signup, skills
\* defaults to [], the other fields are not set.
NewProfile(firstName, lastName) ==
    [firstName |-> firstName, lastName |-> lastName, phone |-> None, city |-> None,
     skills |-> <<>>, experienceYears |-> NoNumber, githubUrl |-> None,
     portfolioUrl |-> None, resumeUrl |-> None, profilePicture |-> None,
     salaryExpectation |-> NoNumber]

requiredFields ==
    {"firstName", "lastName", "email", "phone", "city", "skills", "experienceYears"}
optionalFields == {"githubUrl", "portfolioUrl", "resumeUrl", "profilePicture"}

\* this[field] && (Array.isArray(this[field]) ? this[field].length > 0 : true)
\* for a required field, this[field] for an optional one: undefined, '' and
\* the number 0 are falsy, an array is truthy whatever its length.
FieldCounts(doc, field) ==
    CASE field = "skills" -> Len(doc.skills) > 0
      [] field = "experienceYears" -> doc.experienceYears \notin {NoNumber, 0}
      [] OTHER -> doc[field] \notin {None, ""}

completedFields(doc) ==
    Cardinality({f \in requiredFields \cup optionalFields : FieldCounts(doc, f)})

totalFields == Cardinality(requiredFields) + Cardinality(optionalFields)

\* Math.round(x) is floor(x + 1/2).
profileCompletion(doc) == (2 * 100 * completedFields(doc) + totalFields) \div (2 * totalFields)

----------------------------------------------------------------------------
(* middlewares/auth.js *)

NoToken == [kind |-> "missing", userId |-> None, role |-> None]
BadToken == [kind |-> "invalid", userId |-> None, role |-> None]
ExpiredToken == [kind |-> "expired", userId |-> None, role |-> None]
\* A token jwt.verify accepts, with its payload {userId, role}.
SignedToken(u, r) == [kind |-> "signed", userId |-> u, role |-> r]

Denied(code, msg) ==
    [ok |-> FALSE, status |-> code, message |-> msg, userId |-> None, userRole |-> None]

FindAccount(coll, ids, u) == IF u \in ids THEN coll[u] ELSE NoDoc

\* An authenticateToken that trusts the payload without reading the account.
authenticateTokenNoLookup(tok, devs, emps) ==
    IF tok.kind = "missing" THEN Denied(401, "Access token is required")
    ELSE IF tok.kind = "invalid" THEN Denied(401, "Invalid token")
    ELSE IF tok.kind = "expired" THEN Denied(401, "Token expired")
    ELSE IF tok.role \notin {"Developer", "Employer"} THEN Denied(401, "Invalid user role")
    ELSE [ok |-> TRUE, status |-> 200, message |-> None,
          userId |-> tok.userId, userRole |-> tok.role]

authenticateToken(tok, devs, emps) ==
    IF tok.kind = "missing" THEN Denied(401, "Access token is required")
    ELSE IF tok.kind = "invalid" THEN Denied(401, "Invalid token")
    ELSE IF tok.kind = "expired" THEN Denied(401, "Token expired")
    ELSE IF tok.role \notin {"Developer", "Employer"} THEN Denied(401, "Invalid user role")
    ELSE LET user == IF tok.role = "Developer"
                        THEN FindAccount(devs, DOMAIN devs, tok.userId)
                        ELSE FindAccount(emps, DOMAIN emps, tok.userId)
         IN IF ~IsDoc(user) THEN Denied(401, "User not found")
            ELSE [ok |-> TRUE, status |-> 200, message |-> None,
                  userId |-> tok.userId, userRole |-> tok.role]

\* An authorizeRole that lets every authenticated caller through.
authorizeRoleAny(auth, roles) == auth

\* roles = {} stands for a route that has no authorizeRole.
authorizeRole(auth, roles) ==
    IF roles = {} \/ auth.userRole \in roles THEN auth
    ELSE Denied(403, "Access denied. Insufficient permissions.")

\* The auth chain of a route: authenticateToken, then authorizeRole.
Guard(tok, devs, emps, roles) ==
    LET auth == authenticateToken(tok, devs, emps)
    IN IF ~auth.ok THEN auth ELSE authorizeRole(auth, roles)

----------------------------------------------------------------------------
(* middlewares/validation.js *)

\* A Joi.string(): present values must be non-empty strings.
JoiString(v) == v # ""

\* schemas.jobRequestCreate; body.extra stands for a key the schema does not
\* list (employerId, status, ...), which Joi.object rejects.
ValidCreate(b) ==
    /\ ~b.extra
    /\ b.developerId # None /\ JoiString(b.developerId)
    /\ b.jobTitle # None /\ JoiString(b.jobTitle)
    /\ b.salaryOffer >= 0
    /\ b.salaryType \in {None, "hourly", "monthly", "yearly"}
    /\ JoiString(b.interviewLocation)
    /\ JoiString(b.interviewNotes)

\* schemas.jobRequestUpdate
ValidUpdate(b) ==
    /\ ~b.extra
    /\ b.status \in {None} \cup Statuses
    /\ JoiString(b.interviewLocation)
    /\ JoiString(b.interviewNotes)
    /\ JoiString(b.employerNotes)
    /\ JoiString(b.developerNotes)

----------------------------------------------------------------------------
(* models/Employer.js: jobRequestSchema *)

DefaultStatus == "pending"
DefaultSalaryType == "yearly"

\* new JobRequest(req.body): the caller's id is not added to the document.
NewJobRequestNoEmployer(b, employerId) ==
    [employerId        |-> None,
     developerId       |-> b.developerId,
     jobTitle          |-> b.jobTitle,
     jobDescription    |-> b.jobDescription,
     salaryOffer       |-> b.salaryOffer,
     salaryType        |-> IF b.salaryType = None THEN DefaultSalaryType ELSE b.salaryType,
     status            |-> DefaultStatus,
     interviewDate     |-> b.interviewDate,
     interviewLocation |-> b.interviewLocation,
     interviewNotes    |-> b.interviewNotes,
     employerNotes     |-> None,
     developerNotes    |-> None]

\* new JobRequest({...req.body, employerId: req.user._id}): the schema's
\* fields are copied from the body, absent ones take the schema default.
NewJobRequest(b, employerId) ==
    [employerId        |-> employerId,
     developerId       |-> b.developerId,
     jobTitle          |-> b.jobTitle,
     jobDescription    |-> b.jobDescription,
     salaryOffer       |-> b.salaryOffer,
     salaryType        |-> IF b.salaryType = None THEN DefaultSalaryType ELSE b.salaryType,
     status            |-> DefaultStatus,
     interviewDate     |-> b.interviewDate,
     interviewLocation |-> b.interviewLocation,
     interviewNotes    |-> b.interviewNotes,
     employerNotes     |-> None,
     developerNotes    |-> None]

\* Model.findById on the JobRequest collection.
FindRequest(jrs, id) == IF id \in DOMAIN jrs THEN jrs[id] ELSE NoDoc

\* Model.findByIdAndUpdate(id, update): $set of the update's defined fields;
\* an update of no document does nothing and yields null.
ApplyUpdate(jrs, id, upd) ==
    IF ~IsDoc(FindRequest(jrs, id)) THEN jrs
    ELSE [jrs EXCEPT ![id] =
            [f \in DOMAIN jrs[id] |->
                IF f \in DOMAIN upd /\ upd[f] # None THEN upd[f] ELSE jrs[id][f]]]

\* JobRequest.findOne({employerId, developerId, status: 'pending'})
HasPending(jrs, employerId, developerId) ==
    \E i \in DOMAIN jrs :
        /\ IsDoc(jrs[i])
        /\ jrs[i].employerId = employerId
        /\ jrs[i].developerId = developerId
        /\ jrs[i].status = "pending"

----------------------------------------------------------------------------
(* routes/jobRequests.js: each handler as a function of the request and    *)
(* the collections it reads, returning the HTTP status and message, the    *)
(* collection it leaves behind and the ids of the job requests in the      *)
(* response body.                                                          *)

Reply(code, msg, jrs, data) == [status |-> code, message |-> msg, jrs |-> jrs, data |-> data]

ValidationError(jrs) == Reply(400, "Validation error", jrs, {})

\* The developer checks of POST /job-requests: the reply that ends the
\* request, or status 200 to go on. schemas.jobRequestCreate takes any
\* string as developerId; Developer.findById throws a CastError for one that
\* is no ObjectId, and the error middleware of server.js answers it.
CreateCheckDeveloper(devs, developerId, jrs) ==
    LET developer == FindAccount(devs, DOMAIN devs, developerId)
    IN IF developerId \notin ObjectIds THEN Reply(500, "Something went wrong!", jrs, {})
       ELSE IF ~IsDoc(developer) THEN Reply(404, "Developer not found", jrs, {})
       ELSE IF ~developer.isAvailable
            THEN Reply(400, "Developer is not available for work", jrs, {})
       ELSE Reply(200, None, jrs, {})

\* The reply when a pending request of the pair already exists.
DuplicatePending(jrs) ==
    Reply(400, "You already have a pending request to this developer", jrs, {})

\* jobRequest.save(): the document is stored under a fresh id (ids are
\* never reused: a deleted document leaves its id behind).
NextId(jrs) == Cardinality(DOMAIN jrs) + 1

InsertRequest(jrs, doc) == jrs @@ (NextId(jrs) :> doc)

\* POST /job-requests; at is the time save() is called at.
CreateHandler(tok, body, devs, emps, jrs, at) ==
    LET auth == Guard(tok, devs, emps, {"Employer"})
    IN IF ~auth.ok THEN Reply(auth.status, auth.message, jrs, {})
       ELSE IF ~ValidCreate(body) THEN ValidationError(jrs)
       ELSE IF CreateCheckDeveloper(devs, body.developerId, jrs).status # 200
            THEN CreateCheckDeveloper(devs, body.developerId, jrs)
       ELSE IF HasPending(jrs, auth.userId, body.developerId) THEN DuplicatePending(jrs)
       ELSE Reply(201, "Job request sent successfully",
                  InsertRequest(jrs, Stamped(NewJobRequest(body, auth.userId), at)),
                  {NextId(jrs)})

\* PartyDenied with the Employer comparison left out.
PartyDeniedDeveloperOnly(auth, doc) ==
    auth.userRole = "Developer" /\ doc.developerId # auth.userId

\* The access checks shared by GET /:id and PUT /:id.
PartyDenied(auth, doc) ==
    \/ auth.userRole = "Developer" /\ doc.developerId # auth.userId
    \/ auth.userRole = "Employer" /\ doc.employerId # auth.userId

NoUpdate == [status |-> None, interviewDate |-> None, interviewLocation |-> None,
             interviewNotes |-> None, employerNotes |-> None, developerNotes |-> None]

\* updateData copying every truthy body field, whatever the role.
UpdateDataAnyRole(userRole, body) ==
    [f \in DOMAIN NoUpdate |-> IF Truthy(body[f]) THEN body[f] ELSE None]

\* updateData of PUT /job-requests/:id
UpdateData(userRole, body) ==
    IF userRole = "Employer" THEN
        [NoUpdate EXCEPT
            !.interviewDate = IF Truthy(body.interviewDate) THEN body.interviewDate ELSE None,
            !.interviewLocation = IF Truthy(body.interviewLocation) THEN body.interviewLocation ELSE None,
            !.interviewNotes = IF Truthy(body.interviewNotes) THEN body.interviewNotes ELSE None,
            !.employerNotes = IF Truthy(body.employerNotes) THEN body.employerNotes ELSE None,
            !.status = IF Truthy(body.status) /\ body.status \in {"withdrawn"}
                       THEN body.status ELSE None]
    ELSE IF userRole = "Developer" THEN
        [NoUpdate EXCEPT
            !.status = IF Truthy(body.status) /\ body.status \in {"accepted", "rejected"}
                       THEN body.status ELSE None,
            !.developerNotes = IF Truthy(body.developerNotes) THEN body.developerNotes ELSE None]
    ELSE NoUpdate

\* The checks of PUT /:id on the document read: the reply that ends the
\* request, or status 200 to go on to the write.
UpdateCheck(auth, doc, jrs) ==
    IF ~IsDoc(doc) THEN Reply(404, "Job request not found", jrs, {})
    ELSE IF PartyDenied(auth, doc) THEN Reply(403, "Access denied", jrs, {})
    ELSE Reply(200, None, jrs, {})

\* PUT /job-requests/:id
UpdateHandler(tok, id, body, devs, emps, jrs) ==
    LET auth == Guard(tok, devs, emps, {})
        doc == FindRequest(jrs, id)
    IN IF ~auth.ok THEN Reply(auth.status, auth.message, jrs, {})
       ELSE IF ~ValidUpdate(body) THEN ValidationError(jrs)
       ELSE IF UpdateCheck(auth, doc, jrs).status # 200 THEN UpdateCheck(auth, doc, jrs)
       ELSE Reply(200, "Job request updated successfully",
                  ApplyUpdate(jrs, id, UpdateData(auth.userRole, body)), {id})

DecisionVerb(newStatus) == IF newStatus = "accepted" THEN "accepted" ELSE "rejected"

\* DecisionCheck without the check of the current status.
DecisionCheckAnyStatus(newStatus, auth, doc, jrs) ==
    IF ~IsDoc(doc) THEN [status |-> 404, message |-> "Job request not found", jrs |-> jrs, data |-> {}]
    ELSE IF doc.developerId # auth.userId
         THEN [status |-> 403, message |-> "Access denied", jrs |-> jrs, data |-> {}]
    ELSE [status |-> 200, message |-> None, jrs |-> jrs, data |-> {}]

\* The checks of PATCH /:id/accept and /:id/reject on the document read.
DecisionCheck(newStatus, auth, doc, jrs) ==
    IF ~IsDoc(doc) THEN Reply(404, "Job request not found", jrs, {})
    ELSE IF doc.developerId # auth.userId THEN Reply(403, "Access denied", jrs, {})
    ELSE IF doc.status # "pending"
         THEN Reply(400, "Job request cannot be " \o DecisionVerb(newStatus)
                         \o " in its current status", jrs, {})
    ELSE Reply(200, None, jrs, {})

\* The update written by accept / reject:
\* {status, developerNotes: developerNotes || jobRequest.developerNotes}
DecisionUpdate(newStatus, notes, doc) ==
    [NoUpdate EXCEPT
        !.status = newStatus,
        !.developerNotes = IF Truthy(notes) THEN notes ELSE doc.developerNotes]

\* PATCH /job-requests/:id/accept (newStatus = "accepted") and
\* PATCH /job-requests/:id/reject (newStatus = "rejected")
DecisionHandler(newStatus, tok, id, notes, devs, emps, jrs) ==
    LET auth == Guard(tok, devs, emps, {"Developer"})
        doc == FindRequest(jrs, id)
    IN IF ~auth.ok THEN Reply(auth.status, auth.message, jrs, {})
       ELSE IF DecisionCheck(newStatus, auth, doc, jrs).status # 200
            THEN DecisionCheck(newStatus, auth, doc, jrs)
       ELSE Reply(200, "Job request " \o DecisionVerb(newStatus) \o " successfully",
                  ApplyUpdate(jrs, id, DecisionUpdate(newStatus, notes, doc)), {id})

AcceptHandler(tok, id, notes, devs, emps, jrs) ==
    DecisionHandler("accepted", tok, id, notes, devs, emps, jrs)

RejectHandler(tok, id, notes, devs, emps, jrs) ==
    DecisionHandler("rejected", tok, id, notes, devs, emps, jrs)

\* DELETE /job-requests/:id
DeleteHandler(tok, id, devs, emps, jrs) ==
    LET auth == Guard(tok, devs, emps, {"Admin"})
    IN IF ~auth.ok THEN Reply(auth.status, auth.message, jrs, {})
       ELSE IF ~IsDoc(FindRequest(jrs, id)) THEN Reply(404, "Job request not found", jrs, {})
       ELSE Reply(200, "Job request deleted successfully", [jrs EXCEPT ![id] = NoDoc], {})

\* The checks of GET /job-requests/:id on the document findById answered.
GetCheck(auth, id, doc, jrs) ==
    IF ~IsDoc(doc) THEN Reply(404, "Job request not found", jrs, {})
    ELSE IF PartyDenied(auth, doc) THEN Reply(403, "Access denied", jrs, {})
    ELSE Reply(200, None, jrs, {id})

\* GET /job-requests/:id
GetHandler(tok, id, devs, emps, jrs) ==
    LET auth == Guard(tok, devs, emps, {})
    IN IF ~auth.ok THEN Reply(auth.status, auth.message, jrs, {})
       ELSE GetCheck(auth, id, FindRequest(jrs, id), jrs)

\* ListFilter without the filter on the caller.
ListFilterStatusOnly(auth, statusQuery, doc) ==
    Truthy(statusQuery) => doc.status = statusQuery

\* The filter of GET /job-requests
ListFilter(auth, statusQuery, doc) ==
    /\ auth.userRole = "Developer" => doc.developerId = auth.userId
    /\ auth.userRole = "Employer" => doc.employerId = auth.userId
    /\ Truthy(statusQuery) => doc.status = statusQuery

\* .sort({createdAt: order}) on the documents S of a collection: the orders
\* the sort may produce. Documents created in the same millisecond come in
\* either order.
SortedByCreatedAt(S, coll, asc) ==
    LET n == Cardinality(S)
    IN {f \in [1..n -> S] :
            /\ \A i, j \in 1..n : i # j => f[i] # f[j]
            /\ \A i, j \in 1..n : i < j =>
                  IF asc THEN coll[f[i]].createdAt <= coll[f[j]].createdAt
                  ELSE coll[f[i]].createdAt >= coll[f[j]].createdAt}

\* .skip((page - 1) * limit).limit(limit)
PageOf(seq, page, limit) ==
    {seq[k] : k \in {j \in 1..Len(seq) : j > (page - 1) * limit /\ j <= page * limit}}

\* JobRequest.find(filter).sort(...).skip(...).limit(...): the pages the
\* query may answer.
ListPages(auth, query, jrs) ==
    {PageOf(sorted, query.page, query.limit) :
        sorted \in SortedByCreatedAt({i \in DOMAIN jrs : IsDoc(jrs[i])
                                                         /\ ListFilter(auth, query.status, jrs[i])},
                                     jrs, query.sortOrder = "asc")}

\* JobRequest.countDocuments(filter): pagination.total.
ListTotal(auth, query, jrs) ==
    Cardinality({i \in DOMAIN jrs : IsDoc(jrs[i]) /\ ListFilter(auth, query.status, jrs[i])})

\* GET /job-requests; query = [status, sortOrder, page, limit]: the replies
\* the route may give when both reads are answered from the same collection.
ListHandler(tok, query, devs, emps, jrs) ==
    LET auth == Guard(tok, devs, emps, {})
    IN IF ~auth.ok THEN {Reply(auth.status, auth.message, jrs, {}) @@ [total |-> None]}
       ELSE {Reply(200, None, jrs, page) @@ [total |-> ListTotal(auth, query, jrs)] :
                page \in ListPages(auth, query, jrs)}

----------------------------------------------------------------------------
(* routes/developers.js *)

\* A request body without keys.
NoBody == [k \in {} |-> None]

\* The bodies of PATCH /developers/profile/availability; the route has no
\* validation, so isAvailable can be absent.
AvailabilityBodies == {[isAvailable |-> TRUE], [isAvailable |-> FALSE], NoBody}

\* findByIdAndUpdate(id, {isAvailable}): an undefined value writes nothing.
SetIsAvailable(devs, id, body) ==
    IF id \in DOMAIN devs /\ "isAvailable" \in DOMAIN body
    THEN [devs EXCEPT ![id].isAvailable = body.isAvailable]
    ELSE devs

\* `Availability updated to ${isAvailable ? 'available' : 'unavailable'}`
AvailabilityMessage(body) ==
    "Availability updated to "
    \o (IF "isAvailable" \in DOMAIN body /\ body.isAvailable THEN "available" ELSE "unavailable")

\* PATCH /developers/profile/availability
AvailabilityHandler(tok, body, devs, emps) ==
    LET auth == Guard(tok, devs, emps, {"Developer"})
    IN IF ~auth.ok THEN [status |-> auth.status, message |-> auth.message, devs |-> devs]
       ELSE [status |-> 200, message |-> AvailabilityMessage(body),
             devs |-> SetIsAvailable(devs, auth.userId, body)]

----------------------------------------------------------------------------
(* Requests the environment sends *)

\* The tokens signup and login issue: jwt.sign({userId, role: userType}).
DevCaller(d) == SignedToken(d, "Developer")
EmpCaller(e) == SignedToken(e, "Employer")

\* The callers of the requests: both developers, the employer e1, the
\* administrator account e2 with a token naming its role, and no token.
Tokens ==
    {DevCaller(d) : d \in DevIds}
    \cup {EmpCaller("e1"), SignedToken("e2", "Admin"), NoToken}

\* Every credential a request can carry, for the properties that range over
\* the callers of a handler.
AllTokens ==
    Tokens \cup {EmpCaller("e2"), BadToken, ExpiredToken, SignedToken(GhostId, "Developer"),
                 SignedToken("e1", "Developer"), SignedToken("d1", "Employer"),
                 SignedToken("d1", "Admin"), SignedToken("e1", "Admin")}

CreateBody(dev, title, salary, date, loc, inotes, extra) ==
    [developerId |-> dev, jobTitle |-> title, jobDescription |-> None,
     salaryOffer |-> salary, salaryType |-> None, interviewDate |-> date,
     interviewLocation |-> loc, interviewNotes |-> inotes, extra |-> extra]

CreateBodies ==
    {CreateBody(d, "t1", 1, None, None, None, FALSE) : d \in DevIds \cup {GhostId, BadId}}
    \cup {CreateBody("d1", None, 1, None, None, None, FALSE),
          CreateBody("d1", "t1", -1, None, None, None, FALSE),
          CreateBody("d1", "t1", 1, None, None, None, TRUE)}

UpdateBody(st, date, loc, inotes, enotes, dnotes, extra) ==
    [status |-> st, interviewDate |-> date, interviewLocation |-> loc,
     interviewNotes |-> inotes, employerNotes |-> enotes, developerNotes |-> dnotes,
     extra |-> extra]

EmptyUpdate == UpdateBody(None, None, None, None, None, None, FALSE)

\* Bodies of the lifecycle: a status or nothing, and the bodies validation rejects.
UpdateBodies ==
    {[EmptyUpdate EXCEPT !.status = st] : st \in {None, "bogus"} \cup Statuses}
    \cup {[EmptyUpdate EXCEPT !.extra = TRUE]}

DecisionNotes == {None}
AllDecisionNotes == {None, "", "n1", "n2"}

ListQueries ==
    [status : {None, "pending"}, sortOrder : {"asc", "desc"}, page : {1, 2}, limit : {1, 10}]

----------------------------------------------------------------------------
(* State *)

Idle == [pc |-> "idle"]
Slots == 1..MaxInflight

\* The response of the handler that ran last, until it is sent.
Result(op, r, data) == [op |-> op, status |-> r.status, message |-> r.message, data |-> data]
NoResponse == [op |-> "none", status |-> 0, message |-> None, data |-> {}]

\* The accounts the database holds at the start: d1 and the employers were
\* created at times 1 and 2, d2 at time t.
InitAt(t) ==
    /\ developers = [d \in DevIds |->
            [isAvailable |-> TRUE, role |-> "Developer", projects |-> <<>>,
             email |-> IF d = "d1" THEN "a@x.com" ELSE "b@x.com",
             password |-> bcryptHash(IF d = "d1" THEN "secret1" ELSE "secret2"),
             createdAt |-> IF d = "d1" THEN 1 ELSE t]
            @@ NewProfile("Ann", "Lee")]
    /\ employers = [e \in EmpIds |->
            [role |-> IF e = "e2" THEN "Admin" ELSE "Employer",
             email |-> IF e = "e1" THEN "b@x.com" ELSE "c@x.com",
             password |-> bcryptHash(IF e = "e1" THEN "secret1" ELSE "secret2"),
             createdAt |-> IF e = "e1" THEN 1 ELSE 2]]
    /\ jobRequests = <<>>
    /\ projects = <<>>
    /\ inflight = [s \in Slots |-> Idle]
    /\ last = NoResponse
    /\ now = 2

Init == InitAt(2)

----------------------------------------------------------------------------
(* Requests in flight. Node runs a handler until it awaits the database    *)
(* and then runs the callbacks of other requests: a step of the model is   *)
(* one answer of the database together with the code that runs on it, up   *)
(* to the next await or to the response. Up to MaxInflight requests are in *)
(* flight, and their steps interleave. The first step of a request with a  *)
(* verifiable token is the account lookup of authenticateToken, followed   *)
(* by authorizeRole and the validation middleware.                         *)

Ready == last = NoResponse /\ \A s \in Slots : inflight[s] = Idle

\* The slot a new request takes.
FreeSlot(s) == inflight[s] = Idle /\ \A t \in Slots : t < s => inflight[t] # Idle

\* The request of slot s waits for the database at pc.
At(s, pc) == inflight[s].pc = pc /\ last = NoResponse

\* The request of slot s goes on to its next await.
Continue(s, req) ==
    /\ inflight' = [inflight EXCEPT ![s] = req]
    /\ last' = last

\* The request of slot s is answered.
Finish(s, op, r) ==
    /\ inflight' = [inflight EXCEPT ![s] = Idle]
    /\ last' = Result(op, r, r.data)

Creating == {s \in Slots : inflight[s].pc \in {"findDeveloper", "findPending", "save"}}

\* POST /job-requests: authenticateToken, authorizeRole('Employer') and
\* validate(schemas.jobRequestCreate).
CreateBegin(s, toks, bodies, cap) ==
    \E tok \in toks, body \in bodies :
        LET auth == Guard(tok, developers, employers, {"Employer"})
        IN /\ FreeSlot(s) /\ last = NoResponse
           /\ IF ~auth.ok THEN Finish(s, "create", Reply(auth.status, auth.message, jobRequests, {}))
              ELSE IF ~ValidCreate(body) THEN Finish(s, "create", ValidationError(jobRequests))
              ELSE /\ NextId(jobRequests) + Cardinality(Creating) <= cap
                   /\ Continue(s, [pc |-> "findDeveloper", userId |-> auth.userId, body |-> body])
           /\ UNCHANGED <<developers, employers, jobRequests, projects, now>>

\* Developer.findById(req.body.developerId) and the checks of its result.
CreateFindDeveloper(s) ==
    LET chk == CreateCheckDeveloper(developers, inflight[s].body.developerId, jobRequests)
    IN /\ At(s, "findDeveloper")
       /\ IF chk.status # 200 THEN Finish(s, "create", chk)
          ELSE Continue(s, [inflight[s] EXCEPT !.pc = "findPending"])
       /\ UNCHANGED <<developers, employers, jobRequests, projects, now>>

\* The findOne of the pair's pending request and the check of its result;
\* without one the handler calls jobRequest.save(), which reads the clock.
CreateFindPending(s) ==
    /\ At(s, "findPending")
    /\ IF HasPending(jobRequests, inflight[s].userId, inflight[s].body.developerId)
       THEN Finish(s, "create", DuplicatePending(jobRequests)) /\ now' = now
       ELSE \E t \in SaveTimes(now) :
                /\ now' = t
                /\ Continue(s, [pc |-> "save", userId |-> inflight[s].userId,
                                body |-> inflight[s].body, createdAt |-> t])
    /\ UNCHANGED <<developers, employers, jobRequests, projects>>

\* The insert of jobRequest.save() is answered.
CreateSave(s) ==
    /\ At(s, "save")
    /\ jobRequests' = InsertRequest(jobRequests,
                                    Stamped(NewJobRequest(inflight[s].body, inflight[s].userId),
                                            inflight[s].createdAt))
    /\ Continue(s, [pc |-> "populateEmployer", id |-> NextId(jobRequests)])
    /\ UNCHANGED <<developers, employers, projects, now>>

\* The answer of one of the two populate queries that follow a read or a
\* write of a JobRequest (employerId first, developerId second); the
\* handler goes on after the second answer.
Populated(s, pcEmployer, pcDeveloper) ==
    /\ last = NoResponse
    /\ inflight[s].pc \in {pcEmployer, pcDeveloper}

\* jobRequest.populate('employerId'), then jobRequest.populate('developerId')
\* and the 201 response.
CreatePopulate(s) ==
    /\ Populated(s, "populateEmployer", "populateDeveloper")
    /\ IF inflight[s].pc = "populateEmployer"
       THEN Continue(s, [inflight[s] EXCEPT !.pc = "populateDeveloper"])
       ELSE Finish(s, "create",
                   Reply(201, "Job request sent successfully", jobRequests, {inflight[s].id}))
    /\ UNCHANGED <<developers, employers, jobRequests, projects, now>>

\* PUT /job-requests/:id: authenticateToken and validate(schemas.jobRequestUpdate).
UpdateBegin(s, toks, ids, bodies) ==
    \E tok \in toks, id \in ids, body \in bodies :
        LET auth == Guard(tok, developers, employers, {})
        IN /\ FreeSlot(s) /\ last = NoResponse
           /\ IF ~auth.ok THEN Finish(s, "update", Reply(auth.status, auth.message, jobRequests, {}))
              ELSE IF ~ValidUpdate(body) THEN Finish(s, "update", ValidationError(jobRequests))
              ELSE Continue(s, [pc |-> "updateFind", auth |-> auth, id |-> id, body |-> body])
           /\ UNCHANGED <<developers, employers, jobRequests, projects, now>>

\* JobRequest.findById, the access checks and the building of updateData.
UpdateFind(s) ==
    LET req == inflight[s]
        chk == UpdateCheck(req.auth, FindRequest(jobRequests, req.id), jobRequests)
    IN /\ At(s, "updateFind")
       /\ IF chk.status # 200 THEN Finish(s, "update", chk)
          ELSE Continue(s, [pc |-> "update", id |-> req.id,
                            update |-> UpdateData(req.auth.userRole, req.body)])
       /\ UNCHANGED <<developers, employers, jobRequests, projects, now>>

\* findByIdAndUpdate of PUT; its populate queries follow.
UpdateWrite(s) ==
    /\ At(s, "update")
    /\ jobRequests' = ApplyUpdate(jobRequests, inflight[s].id, inflight[s].update)
    /\ Continue(s, [pc |-> "updatePopulateEmployer", id |-> inflight[s].id])
    /\ UNCHANGED <<developers, employers, projects, now>>

\* .populate('employerId').populate('developerId') of the updated request,
\* and the 200 response after the second.
UpdatePopulate(s) ==
    /\ Populated(s, "updatePopulateEmployer", "updatePopulateDeveloper")
    /\ IF inflight[s].pc = "updatePopulateEmployer"
       THEN Continue(s, [inflight[s] EXCEPT !.pc = "updatePopulateDeveloper"])
       ELSE Finish(s, "update",
                   Reply(200, "Job request updated successfully", jobRequests, {inflight[s].id}))
    /\ UNCHANGED <<developers, employers, jobRequests, projects, now>>

DecisionOp(newStatus) == IF newStatus = "accepted" THEN "accept" ELSE "reject"

\* PATCH /:id/accept and /:id/reject: authenticateToken and
\* authorizeRole('Developer').
DecisionBegin(s, toks, ids, allNotes) ==
    \E tok \in toks, id \in ids, notes \in allNotes, newStatus \in {"accepted", "rejected"} :
        LET auth == Guard(tok, developers, employers, {"Developer"})
        IN /\ FreeSlot(s) /\ last = NoResponse
           /\ IF ~auth.ok
              THEN Finish(s, DecisionOp(newStatus), Reply(auth.status, auth.message, jobRequests, {}))
              ELSE Continue(s, [pc |-> "decisionFind", auth |-> auth, id |-> id,
                                notes |-> notes, newStatus |-> newStatus])
           /\ UNCHANGED <<developers, employers, jobRequests, projects, now>>

\* JobRequest.findById and the checks on the document read.
DecisionFind(s) ==
    LET req == inflight[s]
        doc == FindRequest(jobRequests, req.id)
        chk == DecisionCheck(req.newStatus, req.auth, doc, jobRequests)
    IN /\ At(s, "decisionFind")
       /\ IF chk.status # 200 THEN Finish(s, DecisionOp(req.newStatus), chk)
          ELSE Continue(s, [pc |-> "decide", id |-> req.id, newStatus |-> req.newStatus,
                            update |-> DecisionUpdate(req.newStatus, req.notes, doc)])
       /\ UNCHANGED <<developers, employers, jobRequests, projects, now>>

\* findByIdAndUpdate of accept / reject; its populate queries follow.
DecisionWrite(s) ==
    /\ At(s, "decide")
    /\ jobRequests' = ApplyUpdate(jobRequests, inflight[s].id, inflight[s].update)
    /\ Continue(s, [pc |-> "decisionPopulateEmployer", id |-> inflight[s].id,
                    newStatus |-> inflight[s].newStatus])
    /\ UNCHANGED <<developers, employers, projects, now>>

\* .populate('employerId').populate('developerId') of the decided request,
\* and the 200 response after the second.
DecisionPopulate(s) ==
    /\ Populated(s, "decisionPopulateEmployer", "decisionPopulateDeveloper")
    /\ IF inflight[s].pc = "decisionPopulateEmployer"
       THEN Continue(s, [inflight[s] EXCEPT !.pc = "decisionPopulateDeveloper"])
       ELSE Finish(s, DecisionOp(inflight[s].newStatus),
                   Reply(200, "Job request " \o DecisionVerb(inflight[s].newStatus) \o " successfully",
                         jobRequests, {inflight[s].id}))
    /\ UNCHANGED <<developers, employers, jobRequests, projects, now>>

\* DELETE /job-requests/:id: authenticateToken and authorizeRole('Admin'),
\* then, for the request that passed them, findByIdAndDelete.
Delete(s, toks, ids) ==
    IF inflight[s].pc = "delete"
    THEN /\ last = NoResponse
         /\ IF ~IsDoc(FindRequest(jobRequests, inflight[s].id))
            THEN /\ Finish(s, "delete", Reply(404, "Job request not found", jobRequests, {}))
                 /\ jobRequests' = jobRequests
            ELSE /\ jobRequests' = [jobRequests EXCEPT ![inflight[s].id] = NoDoc]
                 /\ Finish(s, "delete", Reply(200, "Job request deleted successfully", jobRequests', {}))
         /\ UNCHANGED <<developers, employers, projects, now>>
    ELSE \E tok \in toks, id \in ids :
            LET auth == Guard(tok, developers, employers, {"Admin"})
            IN /\ FreeSlot(s) /\ last = NoResponse
               /\ IF ~auth.ok THEN Finish(s, "delete", Reply(auth.status, auth.message, jobRequests, {}))
                  ELSE Continue(s, [pc |-> "delete", id |-> id])
               /\ UNCHANGED <<developers, employers, jobRequests, projects, now>>

\* GET /job-requests/:id: authenticateToken.
GetBegin(s, toks, ids) ==
    \E tok \in toks, id \in ids :
        LET auth == Guard(tok, developers, employers, {})
        IN /\ FreeSlot(s) /\ last = NoResponse
           /\ IF ~auth.ok THEN Finish(s, "get", Reply(auth.status, auth.message, jobRequests, {}))
              ELSE Continue(s, [pc |-> "getFind", auth |-> auth, id |-> id])
           /\ UNCHANGED <<developers, employers, jobRequests, projects, now>>

\* JobRequest.findById: null is answered 404 at once, a document is
\* populated first.
GetFind(s) ==
    LET doc == FindRequest(jobRequests, inflight[s].id)
    IN /\ At(s, "getFind")
       /\ IF ~IsDoc(doc) THEN Finish(s, "get", GetCheck(inflight[s].auth, inflight[s].id, doc, jobRequests))
          ELSE Continue(s, [pc |-> "getPopulateEmployer", auth |-> inflight[s].auth,
                            id |-> inflight[s].id, doc |-> doc])
       /\ UNCHANGED <<developers, employers, jobRequests, projects, now>>

\* .populate('employerId').populate('developerId') of the request read;
\* after the second the access checks run on the document as it was read
\* and the response is sent.
GetPopulate(s) ==
    /\ Populated(s, "getPopulateEmployer", "getPopulateDeveloper")
    /\ IF inflight[s].pc = "getPopulateEmployer"
       THEN Continue(s, [inflight[s] EXCEPT !.pc = "getPopulateDeveloper"])
       ELSE Finish(s, "get", GetCheck(inflight[s].auth, inflight[s].id, inflight[s].doc, jobRequests))
    /\ UNCHANGED <<developers, employers, jobRequests, projects, now>>

\* GET /job-requests: authenticateToken; the handler then issues find and
\* countDocuments together (Promise.all).
ListBegin(s, toks, queries) ==
    \E tok \in toks, query \in queries :
        LET auth == Guard(tok, developers, employers, {})
        IN /\ FreeSlot(s) /\ last = NoResponse
           /\ IF ~auth.ok
              THEN /\ inflight' = inflight
                   /\ last' = Result("list", auth, {}) @@ [total |-> None]
              ELSE Continue(s, [pc |-> "listRead", auth |-> auth, query |-> query,
                                waiting |-> {"find", "count"}, data |-> {}, total |-> 0])
           /\ UNCHANGED <<developers, employers, jobRequests, projects, now>>

\* One answer of the list's queries: the requests that may follow.
\* countDocuments is one query; find is followed by the populate queries of
\* employerId and developerId when its page holds a document, and its
\* promise settles after them. The page and the total are those of their
\* own query's answer.
ListAnswers(req, read, jrs) ==
    CASE read = "find" ->
            {[req EXCEPT !.data = page,
                         !.waiting = (@ \ {read})
                                     \cup (IF page = {} THEN {} ELSE {"populateEmployer"})] :
                page \in ListPages(req.auth, req.query, jrs)}
      [] read = "populateEmployer" ->
            {[req EXCEPT !.waiting = (@ \ {read}) \cup {"populateDeveloper"}]}
      [] read = "populateDeveloper" -> {[req EXCEPT !.waiting = @ \ {read}]}
      [] OTHER -> {[req EXCEPT !.total = ListTotal(req.auth, req.query, jrs),
                               !.waiting = @ \ {read}]}

\* One of the queries of the list is answered; the response is sent when
\* both promises of Promise.all have settled.
ListRead(s) ==
    /\ At(s, "listRead")
    /\ \E read \in inflight[s].waiting :
        \E got \in ListAnswers(inflight[s], read, jobRequests) :
           /\ IF got.waiting = {}
              THEN /\ inflight' = [inflight EXCEPT ![s] = Idle]
                   /\ last' = [op |-> "list", status |-> 200, message |-> None,
                               data |-> got.data, total |-> got.total]
              ELSE Continue(s, got)
           /\ UNCHANGED <<developers, employers, jobRequests, projects, now>>

\* PATCH /developers/profile/availability: authenticateToken and
\* authorizeRole('Developer').
AvailabilityBegin(s, toks) ==
    \E tok \in toks, body \in AvailabilityBodies :
        LET auth == Guard(tok, developers, employers, {"Developer"})
        IN /\ FreeSlot(s) /\ last = NoResponse
           /\ IF ~auth.ok
              THEN Finish(s, "availability", Reply(auth.status, auth.message, jobRequests, {}))
              ELSE Continue(s, [pc |-> "availability", userId |-> auth.userId, body |-> body])
           /\ UNCHANGED <<developers, employers, jobRequests, projects, now>>

\* Developer.findByIdAndUpdate(req.user._id, {isAvailable}) and the response.
AvailabilityWrite(s) ==
    /\ At(s, "availability")
    /\ developers' = SetIsAvailable(developers, inflight[s].userId, inflight[s].body)
    /\ Finish(s, "availability", Reply(200, AvailabilityMessage(inflight[s].body), jobRequests, {}))
    /\ UNCHANGED <<employers, jobRequests, projects, now>>

\* res.json(...): the response leaves.
Respond ==
    /\ last # NoResponse
    /\ last' = NoResponse
    /\ UNCHANGED <<developers, employers, jobRequests, inflight, projects, now>>

\* The steps of the requests that write a JobRequest, after their first.
CreateSteps(s) ==
    \/ CreateFindDeveloper(s)
    \/ CreateFindPending(s)
    \/ CreateSave(s)
    \/ CreatePopulate(s)

UpdateSteps(s) ==
    \/ UpdateFind(s)
    \/ UpdateWrite(s)
    \/ UpdatePopulate(s)

DecisionSteps(s) ==
    \/ DecisionFind(s)
    \/ DecisionWrite(s)
    \/ DecisionPopulate(s)

WriteSteps(s) ==
    \/ UpdateSteps(s)
    \/ DecisionSteps(s)

----------------------------------------------------------------------------
(* Spec: the routes that write a JobRequest. Updates, decisions and        *)
(* deletions name the first request or a request that does not exist.      *)

WriteIds == {1, MaxRequests + 1}

Next ==
    \/ \E s \in Slots : CreateBegin(s, Tokens, CreateBodies, MaxRequests)
    \/ \E s \in Slots : CreateSteps(s)
    \/ \E s \in Slots : UpdateBegin(s, Tokens, WriteIds, UpdateBodies)
    \/ \E s \in Slots : DecisionBegin(s, Tokens, WriteIds, DecisionNotes)
    \/ \E s \in Slots : WriteSteps(s)
    \/ \E s \in Slots : Delete(s, Tokens, WriteIds)
    \/ Respond

Spec == Init /\ [][Next]_vars

----------------------------------------------------------------------------
(* ReadSpec: job requests are created, decided and read.                   *)

ReadCreateBodies == {CreateBody(d, "t1", 1, None, None, None, FALSE) : d \in DevIds}

ReadQueries ==
    {[status |-> None, sortOrder |-> "desc", page |-> 1, limit |-> 10],
     [status |-> "pending", sortOrder |-> "asc", page |-> 2, limit |-> 1]}

ReadNext ==
    \/ \E s \in Slots : CreateBegin(s, Tokens, ReadCreateBodies, MaxRequests)
    \/ \E s \in Slots : CreateSteps(s)
    \/ \E s \in Slots : DecisionBegin(s, Tokens, {1}, DecisionNotes)
    \/ \E s \in Slots : DecisionSteps(s)
    \/ \E s \in Slots : GetBegin(s, Tokens, ReqIds)
    \/ \E s \in Slots : GetFind(s)
    \/ \E s \in Slots : GetPopulate(s)
    \/ \E s \in Slots : ListBegin(s, Tokens, ReadQueries)
    \/ \E s \in Slots : ListRead(s)
    \/ Respond

ReadSpec == Init /\ [][ReadNext]_vars

----------------------------------------------------------------------------
(* FrameSpec: the handlers that write a JobRequest, with bodies that set   *)
(* the interview and note fields.                                          *)

FrameCreateBodies ==
    {CreateBody("d1", "t1", 1, None, None, None, FALSE),
     CreateBody("d1", "t1", 1, "t1", "l1", "i1", FALSE)}

FrameUpdateBodies ==
    {UpdateBody(None, "t2", "l2", "i2", None, None, FALSE),
          UpdateBody("withdrawn", "t2", "l2", "i2", "e2", "n2", FALSE),
          UpdateBody("accepted", "t2", "l2", "i2", "e2", "n2", FALSE),
          UpdateBody(None, "epoch", None, None, None, None, FALSE),
          UpdateBody(None, None, None, "", None, None, FALSE),
          UpdateBody(None, "t2", None, None, None, None, TRUE)}

FrameNotes == {None, "n2"}

\* The parties of the request and a caller without a token.
FrameTokens == {DevCaller("d1"), EmpCaller("e1"), NoToken}

FrameNext ==
    \/ \E s \in Slots : CreateBegin(s, FrameTokens, FrameCreateBodies, MaxFrameRequests)
    \/ \E s \in Slots : CreateSteps(s)
    \/ \E s \in Slots : UpdateBegin(s, FrameTokens, {1}, FrameUpdateBodies)
    \/ \E s \in Slots : DecisionBegin(s, FrameTokens, {1}, FrameNotes)
    \/ \E s \in Slots : WriteSteps(s)
    \/ Respond

FrameSpec == Init /\ [][FrameNext]_vars

----------------------------------------------------------------------------
(* ConcSpec: creates, decisions and withdrawals of the same requests.      *)

ConcTokens == {DevCaller(d) : d \in DevIds} \cup {EmpCaller(e) : e \in EmpIds} \cup {NoToken}

ConcCreateBodies == {CreateBody(d, "t1", 1, None, None, None, FALSE) : d \in DevIds}

ConcUpdateBodies == {[EmptyUpdate EXCEPT !.status = st] : st \in Terminal}

ConcNext ==
    \/ \E s \in Slots : CreateBegin(s, ConcTokens, ConcCreateBodies, MaxConcRequests)
    \/ \E s \in Slots : CreateSteps(s)
    \/ \E s \in Slots : UpdateBegin(s, ConcTokens, {1}, ConcUpdateBodies)
    \/ \E s \in Slots : DecisionBegin(s, ConcTokens, {1}, DecisionNotes)
    \/ \E s \in Slots : WriteSteps(s)
    \/ Respond

ConcSpec == Init /\ [][ConcNext]_vars

----------------------------------------------------------------------------
(* Properties *)

Stored == {i \in DOMAIN jobRequests : IsDoc(jobRequests[i])}

\* The documents other than id are the same in jrs as in the collection.
OthersKept(jrs, id) ==
    /\ DOMAIN jrs = DOMAIN jobRequests
    /\ \A i \in DOMAIN jobRequests : i # id => jrs[i] = jobRequests[i]

\* C1: the status of a JobRequest changes only from pending, to accepted,
\* rejected or withdrawn; a request that is accepted, rejected or withdrawn
\* keeps its status under every operation.
C1_StatusLeavesOnlyPending ==
    [][\A i \in DOMAIN jobRequests :
          (/\ IsDoc(jobRequests[i])
           /\ IsDoc(jobRequests'[i])
           /\ jobRequests'[i].status # jobRequests[i].status)
          => (jobRequests[i].status = "pending" /\ jobRequests'[i].status \in Terminal)]_vars

\* C4: accept or reject by its developer of a request that is not pending
\* fails with 400 and leaves the collection (status and developerNotes
\* included) as it was.
C4_DecisionNeedsPending ==
    Ready =>
        \A i \in Stored, newStatus \in {"accepted", "rejected"}, notes \in AllDecisionNotes :
            LET doc == jobRequests[i]
                r == DecisionHandler(newStatus, DevCaller(doc.developerId), i, notes,
                                     developers, employers, jobRequests)
            IN doc.status # "pending" => (r.status = 400 /\ r.jrs = jobRequests)

\* C4 happens: a reject was refused with 400 on a request that had been
\* accepted with notes.
C4_Witness ==
    /\ last.op = "reject"
    /\ last.status = 400
    /\ \E i \in Stored : jobRequests[i].status = "accepted" /\ jobRequests[i].developerNotes # None

\* Bodies of POST /job-requests that pass validation, for every target id:
\* the developers, an id without a document and a string that is no id.
ValidCreateBodies ==
    {CreateBody(d, "t1", 1, None, None, None, FALSE) : d \in DevIds \cup {GhostId, BadId}}

PendingOfPair(e, d) ==
    {i \in Stored : /\ jobRequests[i].employerId = e
                    /\ jobRequests[i].developerId = d
                    /\ jobRequests[i].status = "pending"}

\* The reply r of a create by employer e for developer d stored exactly one
\* new pending request of the pair and left the others alone.
InsertedOne(r, e, d) ==
    LET new == DOMAIN r.jrs \ DOMAIN jobRequests
    IN /\ Cardinality(new) = 1
       /\ \A i \in DOMAIN jobRequests : r.jrs[i] = jobRequests[i]
       /\ \A i \in new : /\ r.jrs[i].status = "pending"
                         /\ r.jrs[i].employerId = e
                         /\ r.jrs[i].developerId = d

\* C5: a create for a pair that has a pending request fails with Conflict
\* (409) and inserts nothing; a create for an existing, available developer
\* without one inserts exactly one pending request.
C5_DuplicateIsConflict ==
    Ready =>
        \A e \in EmpIds, body \in ValidCreateBodies, at \in SaveTimes(now) :
            LET d == body.developerId
                r == CreateHandler(EmpCaller(e), body, developers, employers, jobRequests, at)
            IN /\ PendingOfPair(e, d) # {} => (r.status = 409 /\ r.jrs = jobRequests)
               /\ (PendingOfPair(e, d) = {} /\ d \in DevIds /\ developers[d].isAvailable)
                  => (r.status = 201 /\ InsertedOne(r, e, d))

\* C6: a create for a developer that does not exist fails with 404, a create
\* for a developer with isAvailable = false fails with 400, and both leave
\* the JobRequest collection as it was.
C6_DeveloperChecks ==
    Ready =>
        \A e \in EmpIds, body \in ValidCreateBodies, at \in SaveTimes(now) :
            LET d == body.developerId
                r == CreateHandler(EmpCaller(e), body, developers, employers, jobRequests, at)
            IN /\ d \notin DOMAIN developers => (r.status = 404 /\ r.jrs = jobRequests)
               /\ (d \in DOMAIN developers /\ ~developers[d].isAvailable)
                  => (r.status = 400 /\ r.jrs = jobRequests)

\* Fields a role may write through PUT, and the statuses it may set.
AllowedFields(role) ==
    IF role = "Employer"
    THEN {"interviewDate", "interviewLocation", "interviewNotes", "employerNotes", "status"}
    ELSE {"status", "developerNotes"}

AllowedStatuses(role) == IF role = "Employer" THEN {"withdrawn"} ELSE {"accepted", "rejected"}

\* Bodies the update schema accepts: every field absent, falsy or set.
SchemaUpdateBodies ==
    {UpdateBody(st, date, loc, inotes, enotes, dnotes, FALSE) :
        st \in {None} \cup Statuses, date \in {None, "epoch", "t3"}, loc \in {None, "l3"},
        inotes \in {None, "i3"}, enotes \in {None, "e3"}, dnotes \in {None, "n3"}}

Party(doc, role) == IF role = "Employer" THEN EmpCaller(doc.employerId) ELSE DevCaller(doc.developerId)

\* C7: a PUT by a party of the request with a body of the update schema
\* succeeds and changes only fields of the caller role's set (an Employer:
\* the interview fields, employerNotes and status to withdrawn; a Developer:
\* developerNotes and status to accepted or rejected); what the body supplies
\* beyond that is ignored.
C7_UpdateWritesOnlyAllowed ==
    Ready =>
        \A i \in Stored, role \in {"Employer", "Developer"}, body \in SchemaUpdateBodies :
            LET doc == jobRequests[i]
                r == UpdateHandler(Party(doc, role), i, body, developers, employers, jobRequests)
            IN /\ r.status = 200
               /\ OthersKept(r.jrs, i)
               /\ \A f \in DOMAIN doc :
                     r.jrs[i][f] # doc[f] =>
                        /\ f \in AllowedFields(role)
                        /\ r.jrs[i][f] = body[f]
                        /\ f = "status" => body[f] \in AllowedStatuses(role)

\* C7 happens: an employer's PUT was answered 200 and wrote its own fields
\* while the developer's notes stayed unset.
C7_Witness ==
    /\ last.op = "update"
    /\ last.status = 200
    /\ \E i \in last.data :
          /\ jobRequests[i].employerNotes = "e2"
          /\ jobRequests[i].developerNotes = None
          /\ jobRequests[i].status = "withdrawn"

\* Bodies of the update schema used where the caller, not the body, decides.
SomeUpdateBodies ==
    {[EmptyUpdate EXCEPT !.status = st] : st \in {None} \cup Statuses}
    \cup {UpdateBody(st, "t3", "l3", "i3", "e3", "n3", FALSE) : st \in {"withdrawn", "rejected"}}

\* The replies of the three handlers that write an existing request, for
\* one caller, target and body.
WriteReplies(tok, i, body) ==
    {UpdateHandler(tok, i, body, developers, employers, jobRequests),
     AcceptHandler(tok, i, body.developerNotes, developers, employers, jobRequests),
     RejectHandler(tok, i, body.developerNotes, developers, employers, jobRequests)}

\* C8: accept, reject and PUT by a Developer other than the request's
\* developerId, and PUT by an Employer other than its employerId, fail with
\* 403 and change nothing; a status becomes accepted or rejected only by a
\* call of the request's own developer, withdrawn only by a call of its own
\* employer.
C8_OnlyPartiesMutate ==
    Ready =>
        \A i \in Stored, body \in SomeUpdateBodies :
            LET doc == jobRequests[i]
            IN /\ \A d \in DevIds \ {doc.developerId} :
                    \A r \in WriteReplies(DevCaller(d), i, body) :
                        r.status = 403 /\ r.jrs = jobRequests
               /\ \A e \in EmpIds \ {doc.employerId} :
                    LET r == UpdateHandler(EmpCaller(e), i, body, developers, employers, jobRequests)
                    IN r.status = 403 /\ r.jrs = jobRequests
               /\ \A tok \in AllTokens :
                    \A r \in WriteReplies(tok, i, body) :
                        /\ r.jrs # jobRequests =>
                              tok \in {DevCaller(doc.developerId), EmpCaller(doc.employerId)}
                        /\ r.jrs[i].status # doc.status =>
                              IF r.jrs[i].status = "withdrawn"
                              THEN tok = EmpCaller(doc.employerId)
                              ELSE tok = DevCaller(doc.developerId)

\* C8 happens: an accept by a developer the request is not addressed to was
\* refused with 403, the request still pending.
C8_Witness ==
    /\ last.op = "accept"
    /\ last.status = 403
    /\ last.message = "Access denied"
    /\ \E i \in Stored : jobRequests[i].status = "pending"

AllListQueries ==
    [status : {None} \cup Statuses, sortOrder : {"asc", "desc"}, page : {1, 2}, limit : {1, 2, 10}]

\* C9: every request that list or get-by-id returns to a Developer has the
\* caller as developerId, every request returned to an Employer has the
\* caller as employerId, and get-by-id of a request of other parties fails
\* with 403.
C9_ReadsOnlyOwn ==
    Ready =>
        /\ \A d \in DevIds, e \in EmpIds, query \in AllListQueries :
              /\ \A r \in ListHandler(DevCaller(d), query, developers, employers, jobRequests) :
                    \A i \in r.data : jobRequests[i].developerId = d
              /\ \A r \in ListHandler(EmpCaller(e), query, developers, employers, jobRequests) :
                    \A i \in r.data : jobRequests[i].employerId = e
        /\ \A i \in Stored, d \in DevIds, e \in EmpIds :
              LET rd == GetHandler(DevCaller(d), i, developers, employers, jobRequests)
                  re == GetHandler(EmpCaller(e), i, developers, employers, jobRequests)
              IN /\ IF jobRequests[i].developerId = d
                    THEN rd.status = 200 /\ rd.data = {i}
                    ELSE rd.status = 403 /\ rd.data = {}
                 /\ IF jobRequests[i].employerId = e
                    THEN re.status = 200 /\ re.data = {i}
                    ELSE re.status = 403 /\ re.data = {}

\* C9 happens: a list was answered with a page that holds every request its
\* filter matched, and a stored request of the same status, addressed to
\* another developer, is not among them.
C9_Witness ==
    /\ last.op = "list"
    /\ last.status = 200
    /\ last.data # {}
    /\ last.total = Cardinality(last.data)
    /\ \E i \in last.data, j \in Stored \ last.data :
          /\ jobRequests[j].status = jobRequests[i].status
          /\ jobRequests[j].developerId # jobRequests[i].developerId

\* The credentials of an Admin: a token whose payload names the role Admin,
\* or the token of an account whose role field is Admin.
AdminTokens ==
    {tok \in AllTokens :
        /\ tok.kind = "signed"
        /\ \/ tok.role = "Admin"
           \/ tok.userId \in EmpIds /\ tok.role = "Employer" /\ employers[tok.userId].role = "Admin"
           \/ tok.userId \in DevIds /\ tok.role = "Developer" /\ developers[tok.userId].role = "Admin"}

\* C10: an Admin caller authenticates and its delete of a stored JobRequest
\* succeeds and removes the document; the same delete by a Developer or an
\* Employer fails with 403 and removes nothing.
C10_AdminDeletes ==
    Ready =>
        \A i \in Stored :
            /\ \E tok \in AdminTokens :
                  LET r == DeleteHandler(tok, i, developers, employers, jobRequests)
                  IN r.status = 200 /\ ~IsDoc(r.jrs[i])
            /\ \A tok \in {DevCaller(jobRequests[i].developerId), EmpCaller(jobRequests[i].employerId)} :
                  LET r == DeleteHandler(tok, i, developers, employers, jobRequests)
                  IN r.status = 403 /\ r.jrs = jobRequests

\* C2: no pair (employerId, developerId) ever has two pending requests,
\* also when creates of the pair are in flight together.
C2_OnePendingPerPair ==
    \A e \in EmpIds, d \in DevIds : Cardinality(PendingOfPair(e, d)) <= 1

\* C3: accept and reject check and transition in one atomic step: the write
\* of an accept or a reject never changes a request that is no longer
\* pending, so of an accept, a reject and a withdraw of one request at most
\* one takes effect.
C3_DecisionIsAtomic ==
    [][\A s \in Slots :
          (inflight[s].pc = "decide" /\ inflight'[s].pc = "decisionPopulateEmployer")
          => \A i \in Stored :
                jobRequests[i].status \in Terminal
                => jobRequests'[i].status = jobRequests[i].status]_vars

----------------------------------------------------------------------------
(* models/Project.js, schemas.projectCreate / projectUpdate *)

MaxProjects == 2        \* projects created in ProjSpec
MaxConcProjects == 2    \* projects created in ProjConcSpec

ProjIds == 1..(MaxProjects + 1)   \* ids a request may name: the last one is never stored

\* A boolean of a JSON body: absent, true or false.
JsonBool == {None, "true", "false"}

\* schemas.projectCreate; body.extra stands for a key the schema does not
\* list (developerId, ...), which Joi.object rejects.
ValidProjectCreate(b) ==
    /\ ~b.extra
    /\ b.title # None /\ JoiString(b.title)
    /\ b.isPublic \in JsonBool

\* schemas.projectUpdate
ValidProjectUpdate(b) ==
    /\ ~b.extra
    /\ JoiString(b.title)
    /\ b.isPublic \in JsonBool

\* new Project({...req.body, developerId}): validate() leaves req.body as it
\* was sent, so an absent isPublic gets the schema's default, true.
NewProject(b, developerId) ==
    [developerId |-> developerId,
     title       |-> b.title,
     isPublic    |-> IF b.isPublic = None THEN TRUE ELSE b.isPublic = "true"]

FindProject(projs, id) == IF id \in DOMAIN projs THEN projs[id] ELSE NoDoc

NextProjectId(projs) == Cardinality(DOMAIN projs) + 1

\* project.save()
SaveProject(projs, doc) == projs @@ (NextProjectId(projs) :> doc)

\* Project.findByIdAndDelete(id)
RemoveProject(projs, id) == [projs EXCEPT ![id] = NoDoc]

\* Project.findByIdAndUpdate(id, req.body)
PatchProject(projs, id, b) ==
    IF ~IsDoc(FindProject(projs, id)) THEN projs
    ELSE
    [projs EXCEPT ![id] =
        [@ EXCEPT !.title = IF b.title = None THEN @ ELSE b.title,
                  !.isPublic = IF b.isPublic = None THEN @ ELSE b.isPublic = "true"]]

\* Developer.findByIdAndUpdate(developerId, { $push: { projects: id } })
PushProject(devs, developerId, id) ==
    IF developerId \notin DOMAIN devs THEN devs
    ELSE [devs EXCEPT ![developerId].projects = Append(@, id)]

\* Developer.findByIdAndUpdate(developerId, { $pull: { projects: id } })
PullProject(devs, developerId, id) ==
    IF developerId \notin DOMAIN devs THEN devs
    ELSE [devs EXCEPT ![developerId].projects = SelectSeq(@, LAMBDA x : x # id)]

----------------------------------------------------------------------------
(* routes/projects.js *)

\* A response together with the collections the handler leaves behind.
ProjectReply(code, msg, projs, devs, data) ==
    [status |-> code, message |-> msg, projs |-> projs, devs |-> devs, data |-> data]

\* POST /projects; at is the time save() is called at.
ProjectCreateHandler(tok, body, devs, emps, projs, at) ==
    LET auth == Guard(tok, devs, emps, {"Developer"})
        id == NextProjectId(projs)
    IN IF ~auth.ok THEN ProjectReply(auth.status, auth.message, projs, devs, {})
       ELSE IF ~ValidProjectCreate(body) THEN ProjectReply(400, "Validation error", projs, devs, {})
       ELSE ProjectReply(201, "Project created successfully",
                         SaveProject(projs, Stamped(NewProject(body, auth.userId), at)),
                         PushProject(devs, auth.userId, id), {id})

\* The owner check of PUT and DELETE, left out.
ProjectOwnerCheckNone(what, auth, doc, projs, devs) ==
    IF ~IsDoc(doc) THEN ProjectReply(404, "Project not found", projs, devs, {})
    ELSE ProjectReply(200, None, projs, devs, {})

\* findById, the 404 and the owner check of PUT /projects/:id and DELETE
\* /projects/:id; what is "update" or "delete".
ProjectOwnerCheck(what, auth, doc, projs, devs) ==
    IF ~IsDoc(doc) THEN ProjectReply(404, "Project not found", projs, devs, {})
    ELSE IF doc.developerId # auth.userId
    THEN ProjectReply(403, "Access denied. You can only " \o what \o " your own projects.",
                      projs, devs, {})
    ELSE ProjectReply(200, None, projs, devs, {})

\* PUT /projects/:id
ProjectUpdateHandler(tok, id, body, devs, emps, projs) ==
    LET auth == Guard(tok, devs, emps, {"Developer"})
        chk == ProjectOwnerCheck("update", auth, FindProject(projs, id), projs, devs)
    IN IF ~auth.ok THEN ProjectReply(auth.status, auth.message, projs, devs, {})
       ELSE IF ~ValidProjectUpdate(body) THEN ProjectReply(400, "Validation error", projs, devs, {})
       ELSE IF chk.status # 200 THEN chk
       ELSE ProjectReply(200, "Project updated successfully", PatchProject(projs, id, body), devs, {id})

\* DELETE /projects/:id
ProjectDeleteHandler(tok, id, devs, emps, projs) ==
    LET auth == Guard(tok, devs, emps, {"Developer"})
        chk == ProjectOwnerCheck("delete", auth, FindProject(projs, id), projs, devs)
    IN IF ~auth.ok THEN ProjectReply(auth.status, auth.message, projs, devs, {})
       ELSE IF chk.status # 200 THEN chk
       ELSE ProjectReply(200, "Project deleted successfully",
                         RemoveProject(projs, id), PullProject(devs, auth.userId, id), {})

\* req.user in a route without authenticateToken: nothing sets it, whatever
\* the request carries.
NoUser(tok) == None

\* The checks of GET /projects/:id on the document findById answered.
ProjectGetCheck(tok, id, project, projs, devs) ==
    LET user == NoUser(tok)
    IN IF ~IsDoc(project) THEN ProjectReply(404, "Project not found", projs, devs, {})
       ELSE IF ~project.isPublic /\ (user = None \/ user # project.developerId)
       THEN ProjectReply(403, "Access denied", projs, devs, {})
       ELSE ProjectReply(200, None, projs, devs, {id})

ProjectGetHandler(tok, id, devs, emps, projs) ==
    ProjectGetCheck(tok, id, FindProject(projs, id), projs, devs)

\* The documents of the Project collection.
ProjectDocs(projs) == {i \in DOMAIN projs : IsDoc(projs[i])}

\* The pages of the documents found, sorted by createdAt descending.
ProjectPages(found, query, projs) ==
    {PageOf(sorted, query.page, query.limit) : sorted \in SortedByCreatedAt(found, projs, FALSE)}

\* GET /projects; query = [developerId, page, limit]: the pages the find
\* may answer.
ProjectListPages(query, projs) ==
    ProjectPages({i \in ProjectDocs(projs) :
                    /\ projs[i].isPublic
                    /\ query.developerId # None => projs[i].developerId = query.developerId},
                 query, projs)

ProjectListHandler(tok, query, devs, emps, projs) ==
    {ProjectReply(200, None, projs, devs, page) : page \in ProjectListPages(query, projs)}

\* PublicProjectsOf without isPublic in the filter.
PublicProjectsOfAnyVisibility(developerId, query, projs) ==
    ProjectPages({i \in ProjectDocs(projs) : projs[i].developerId = developerId}, query, projs)

\* Project.find({developerId, isPublic: true}) with its sort, skip and limit.
PublicProjectsOf(developerId, query, projs) ==
    ProjectPages({i \in ProjectDocs(projs) :
                    projs[i].developerId = developerId /\ projs[i].isPublic},
                 query, projs)

\* GET /projects/developer/:developerId
ProjectsOfDeveloperHandler(tok, developerId, query, devs, emps, projs) ==
    IF developerId \notin DOMAIN devs
    THEN {ProjectReply(404, "Developer not found", projs, devs, {})}
    ELSE {ProjectReply(200, None, projs, devs, page) :
            page \in PublicProjectsOf(developerId, query, projs)}

\* Project.find({developerId: req.user._id}) with its sort, skip and limit.
ProjectsOwnedBy(developerId, query, projs) ==
    ProjectPages({i \in ProjectDocs(projs) : projs[i].developerId = developerId}, query, projs)

\* GET /projects/profile/my-projects
MyProjectsHandler(tok, query, devs, emps, projs) ==
    LET auth == Guard(tok, devs, emps, {"Developer"})
    IN IF ~auth.ok THEN {ProjectReply(auth.status, auth.message, projs, devs, {})}
       ELSE {ProjectReply(200, None, projs, devs, page) :
                page \in ProjectsOwnedBy(auth.userId, query, projs)}

----------------------------------------------------------------------------
(* routes/developers.js: GET /developers/:id *)

\* .populate('projects', 'title description techStack demoUrl imageUrl'):
\* the documents of the ids in the list, with the fields selected.
PopulateProjects(list, projs) ==
    {list[k] : k \in {j \in 1..Len(list) : IsDoc(FindProject(projs, list[j]))}}

\* res.json(developer): toJSON runs the virtuals of every populated project
\* (toJSON: {virtuals: true}); formattedCreatedAt reads createdAt, a field
\* the populate does not select, and throws as soon as the list holds a
\* document. The error middleware of server.js answers 500.
SerializeThrows(populated) == populated # {}

\* The response of GET /developers/:id with the projects populated.
DeveloperGetResponse(populated, projs, devs) ==
    IF SerializeThrows(populated)
    THEN ProjectReply(500, "Something went wrong!", projs, devs, {})
    ELSE ProjectReply(200, None, projs, devs, populated)

\* GET /developers/:id; data is the set of projects the reply carries.
DeveloperGetHandler(tok, id, devs, emps, projs) ==
    IF id \notin ObjectIds THEN ProjectReply(500, "Something went wrong!", projs, devs, {})
    ELSE IF id \notin DOMAIN devs THEN ProjectReply(404, "Developer not found", projs, devs, {})
    ELSE DeveloperGetResponse(PopulateProjects(devs[id].projects, projs), projs, devs)

----------------------------------------------------------------------------
(* The project routes and GET /developers/:id, step by step.               *)

ProjectBody(title, isPublic, extra) == [title |-> title, isPublic |-> isPublic, extra |-> extra]

ProjectCreateBodies ==
    {ProjectBody("p1", pub, FALSE) : pub \in JsonBool}
    \cup {ProjectBody(None, None, FALSE), ProjectBody("p1", None, TRUE)}

ProjectUpdateBodies ==
    {ProjectBody("p2", "false", FALSE), ProjectBody("", None, FALSE),
     ProjectBody("p2", None, TRUE)}

ProjectQueries == [developerId : {None, "d1"}, page : {1, 2}, limit : {1, 10}]

\* The developers a request may name: the accounts and an id without one.
DevParams == DevIds \cup {GhostId}

SavingProjects == {s \in Slots : inflight[s].pc = "projectSave"}

\* POST /projects: authenticateToken, authorizeRole('Developer') and
\* validate(schemas.projectCreate); the handler calls project.save(), which
\* reads the clock.
ProjectCreateBegin(s, toks, bodies, cap) ==
    \E tok \in toks, body \in bodies :
        LET auth == Guard(tok, developers, employers, {"Developer"})
        IN /\ FreeSlot(s) /\ last = NoResponse
           /\ IF ~auth.ok
              THEN /\ Finish(s, "projectCreate",
                             ProjectReply(auth.status, auth.message, projects, developers, {}))
                   /\ now' = now
              ELSE IF ~ValidProjectCreate(body)
              THEN /\ Finish(s, "projectCreate",
                             ProjectReply(400, "Validation error", projects, developers, {}))
                   /\ now' = now
              ELSE /\ NextProjectId(projects) + Cardinality(SavingProjects) <= cap
                   /\ \E t \in SaveTimes(now) :
                         /\ now' = t
                         /\ Continue(s, [pc |-> "projectSave", userId |-> auth.userId,
                                         body |-> body, createdAt |-> t])
           /\ UNCHANGED <<developers, employers, jobRequests, projects>>

\* The insert of project.save() is answered.
ProjectCreateSave(s) ==
    /\ At(s, "projectSave")
    /\ projects' = SaveProject(projects,
                               Stamped(NewProject(inflight[s].body, inflight[s].userId),
                                       inflight[s].createdAt))
    /\ Continue(s, [pc |-> "push", userId |-> inflight[s].userId, id |-> NextProjectId(projects)])
    /\ UNCHANGED <<developers, employers, jobRequests, now>>

\* Developer.findByIdAndUpdate(req.user._id, {$push: {projects: project._id}})
ProjectCreatePush(s) ==
    /\ At(s, "push")
    /\ developers' = PushProject(developers, inflight[s].userId, inflight[s].id)
    /\ Continue(s, [inflight[s] EXCEPT !.pc = "projectPopulate"])
    /\ UNCHANGED <<employers, jobRequests, projects, now>>

\* project.populate('developerId') and the 201 response.
ProjectCreatePopulate(s) ==
    /\ At(s, "projectPopulate")
    /\ Finish(s, "projectCreate",
              ProjectReply(201, "Project created successfully", projects, developers, {inflight[s].id}))
    /\ UNCHANGED <<developers, employers, jobRequests, projects, now>>

\* PUT /projects/:id: authenticateToken, authorizeRole('Developer') and
\* validate(schemas.projectUpdate).
ProjectUpdateBegin(s, toks, ids, bodies) ==
    \E tok \in toks, id \in ids, body \in bodies :
        LET auth == Guard(tok, developers, employers, {"Developer"})
        IN /\ FreeSlot(s) /\ last = NoResponse
           /\ IF ~auth.ok
              THEN Finish(s, "projectUpdate",
                          ProjectReply(auth.status, auth.message, projects, developers, {}))
              ELSE IF ~ValidProjectUpdate(body)
              THEN Finish(s, "projectUpdate",
                          ProjectReply(400, "Validation error", projects, developers, {}))
              ELSE Continue(s, [pc |-> "projectUpdateFind", auth |-> auth, id |-> id, body |-> body])
           /\ UNCHANGED <<developers, employers, jobRequests, projects, now>>

\* Project.findById and the owner check of PUT.
ProjectUpdateFind(s) ==
    LET req == inflight[s]
        chk == ProjectOwnerCheck("update", req.auth, FindProject(projects, req.id), projects, developers)
    IN /\ At(s, "projectUpdateFind")
       /\ IF chk.status # 200 THEN Finish(s, "projectUpdate", chk)
          ELSE Continue(s, [req EXCEPT !.pc = "projectPatch"])
       /\ UNCHANGED <<developers, employers, jobRequests, projects, now>>

\* Project.findByIdAndUpdate(req.params.id, req.body): the populate query of
\* developerId follows when the write answers a document; null (the
\* project is gone) is answered 200 at once.
ProjectUpdateWrite(s) ==
    /\ At(s, "projectPatch")
    /\ projects' = PatchProject(projects, inflight[s].id, inflight[s].body)
    /\ IF IsDoc(FindProject(projects, inflight[s].id))
       THEN Continue(s, [pc |-> "projectUpdatePopulate", id |-> inflight[s].id])
       ELSE Finish(s, "projectUpdate",
                   ProjectReply(200, "Project updated successfully", projects', developers, {}))
    /\ UNCHANGED <<developers, employers, jobRequests, now>>

\* .populate('developerId') of the updated project and the 200 response.
ProjectUpdatePopulate(s) ==
    /\ At(s, "projectUpdatePopulate")
    /\ Finish(s, "projectUpdate",
              ProjectReply(200, "Project updated successfully", projects, developers, {inflight[s].id}))
    /\ UNCHANGED <<developers, employers, jobRequests, projects, now>>

\* DELETE /projects/:id: authenticateToken and authorizeRole('Developer').
ProjectDeleteBegin(s, toks, ids) ==
    \E tok \in toks, id \in ids :
        LET auth == Guard(tok, developers, employers, {"Developer"})
        IN /\ FreeSlot(s) /\ last = NoResponse
           /\ IF ~auth.ok
              THEN Finish(s, "projectDelete",
                          ProjectReply(auth.status, auth.message, projects, developers, {}))
              ELSE Continue(s, [pc |-> "projectDeleteFind", auth |-> auth, id |-> id])
           /\ UNCHANGED <<developers, employers, jobRequests, projects, now>>

\* Project.findById and the owner check of DELETE.
ProjectDeleteFind(s) ==
    LET req == inflight[s]
        chk == ProjectOwnerCheck("delete", req.auth, FindProject(projects, req.id), projects, developers)
    IN /\ At(s, "projectDeleteFind")
       /\ IF chk.status # 200 THEN Finish(s, "projectDelete", chk)
          ELSE Continue(s, [pc |-> "pull", userId |-> req.auth.userId, id |-> req.id])
       /\ UNCHANGED <<developers, employers, jobRequests, projects, now>>

\* Developer.findByIdAndUpdate(req.user._id, {$pull: {projects: id}})
ProjectDeletePull(s) ==
    /\ At(s, "pull")
    /\ developers' = PullProject(developers, inflight[s].userId, inflight[s].id)
    /\ Continue(s, [inflight[s] EXCEPT !.pc = "remove"])
    /\ UNCHANGED <<employers, jobRequests, projects, now>>

\* Project.findByIdAndDelete and the 200 response.
ProjectDeleteRemove(s) ==
    /\ At(s, "remove")
    /\ projects' = RemoveProject(projects, inflight[s].id)
    /\ Finish(s, "projectDelete",
              ProjectReply(200, "Project deleted successfully", projects', developers, {}))
    /\ UNCHANGED <<developers, employers, jobRequests, now>>

\* GET /projects/:id has no middleware: the request is taken and
\* Project.findById is answered. null is answered 404 at once, a document is
\* populated first. last.caller is the account the request's token was
\* issued to.
ProjectGetBegin(s, toks, ids) ==
    \E tok \in toks, id \in ids :
        LET project == FindProject(projects, id)
        IN /\ FreeSlot(s) /\ last = NoResponse
           /\ IF ~IsDoc(project)
              THEN /\ inflight' = inflight
                   /\ last' = Result("projectGet",
                                     ProjectGetCheck(tok, id, project, projects, developers), {})
                              @@ [caller |-> tok.userId]
              ELSE Continue(s, [pc |-> "projectGetPopulate", tok |-> tok, id |-> id,
                                project |-> project])
           /\ UNCHANGED <<developers, employers, jobRequests, projects, now>>

\* .populate('developerId') of the project read; the checks then run on the
\* document as it was read and the response is sent.
ProjectGetPopulate(s) ==
    LET req == inflight[s]
        r == ProjectGetCheck(req.tok, req.id, req.project, projects, developers)
    IN /\ At(s, "projectGetPopulate")
       /\ inflight' = [inflight EXCEPT ![s] = Idle]
       /\ last' = Result("projectGet", r, r.data) @@ [caller |-> req.tok.userId]
       /\ UNCHANGED <<developers, employers, jobRequests, projects, now>>

\* The find of a list route: GET /projects, GET /projects/developer/:id or
\* GET /projects/profile/my-projects; the pages it may answer.
ProjectFind(op, developerId, query, projs) ==
    CASE op = "projectList" -> ProjectListPages(query, projs)
      [] op = "projectsOfDeveloper" -> PublicProjectsOf(developerId, query, projs)
      [] OTHER -> ProjectsOwnedBy(developerId, query, projs)

\* One answer of the queries of a list route (Promise.all): the requests
\* that may follow. countDocuments decides pagination.total, which the
\* response of the model leaves out, and find decides its data. GET
\* /projects populates developerId: when its page holds a document one more
\* query follows the find before its promise settles.
ProjectsAnswers(req, read, projs) ==
    IF read = "find"
    THEN {[req EXCEPT !.data = page,
                      !.waiting = (@ \ {read})
                                  \cup (IF req.op = "projectList" /\ page # {}
                                        THEN {"populate"} ELSE {})] :
            page \in ProjectFind(req.op, req.developerId, req.query, projs)}
    ELSE {[req EXCEPT !.waiting = @ \ {read}]}

ProjectsWaiting(op, developerId, query) ==
    [pc |-> "projectsRead", op |-> op, developerId |-> developerId, query |-> query,
     waiting |-> {"find", "count"}, data |-> {}]

\* GET /projects has no middleware: the handler issues its two reads, and
\* the first of them is answered.
ProjectListBegin(s, queries) ==
    \E query \in queries, read \in {"find", "count"} :
        /\ FreeSlot(s) /\ last = NoResponse
        /\ \E got \in ProjectsAnswers(ProjectsWaiting("projectList", None, query), read, projects) :
              Continue(s, got)
        /\ UNCHANGED <<developers, employers, jobRequests, projects, now>>

\* GET /projects/developer/:developerId: Developer.findById; the handler
\* then issues its two reads.
ProjectsOfDeveloperBegin(s, queries) ==
    \E developerId \in DevParams, query \in queries :
        /\ FreeSlot(s) /\ last = NoResponse
        /\ IF developerId \notin DOMAIN developers
           THEN Finish(s, "projectsOfDeveloper",
                       ProjectReply(404, "Developer not found", projects, developers, {}))
           ELSE Continue(s, ProjectsWaiting("projectsOfDeveloper", developerId, query))
        /\ UNCHANGED <<developers, employers, jobRequests, projects, now>>

\* GET /projects/profile/my-projects: authenticateToken and
\* authorizeRole('Developer'); the handler then issues its two reads.
MyProjectsBegin(s, toks, queries) ==
    \E tok \in toks, query \in queries :
        LET auth == Guard(tok, developers, employers, {"Developer"})
        IN /\ FreeSlot(s) /\ last = NoResponse
           /\ IF ~auth.ok
              THEN Finish(s, "myProjects",
                          ProjectReply(auth.status, auth.message, projects, developers, {}))
              ELSE Continue(s, ProjectsWaiting("myProjects", auth.userId, query))
           /\ UNCHANGED <<developers, employers, jobRequests, projects, now>>

\* A query of a list route is answered; the response is sent when both
\* promises have settled.
ProjectsRead(s) ==
    /\ At(s, "projectsRead")
    /\ \E read \in inflight[s].waiting :
          \E got \in ProjectsAnswers(inflight[s], read, projects) :
             IF got.waiting = {}
             THEN Finish(s, got.op, ProjectReply(200, None, projects, developers, got.data))
             ELSE Continue(s, got)
    /\ UNCHANGED <<developers, employers, jobRequests, projects, now>>

\* GET /developers/:id has no middleware: the request is taken and
\* Developer.findById is answered. A string that is no ObjectId is answered
\* 500, null 404 and a developer with an empty projects list 200 at once;
\* a list with ids is populated first.
DeveloperGetBegin(s, toks, ids) ==
    \E tok \in toks, id \in ids :
        /\ FreeSlot(s) /\ last = NoResponse
        /\ IF id \notin DOMAIN developers \/ developers[id].projects = <<>>
           THEN /\ inflight' = inflight
                /\ last' = LET r == DeveloperGetHandler(tok, id, developers, employers, projects)
                           IN Result("developerGet", r, r.data) @@ [caller |-> tok.userId]
           ELSE Continue(s, [pc |-> "developerGetPopulate", tok |-> tok,
                             list |-> developers[id].projects])
        /\ UNCHANGED <<developers, employers, jobRequests, projects, now>>

\* .populate('projects'): the query for the ids of the list as it was read
\* is answered with the documents stored now, and the response is sent.
DeveloperGetPopulate(s) ==
    LET req == inflight[s]
        r == DeveloperGetResponse(PopulateProjects(req.list, projects), projects, developers)
    IN /\ At(s, "developerGetPopulate")
       /\ inflight' = [inflight EXCEPT ![s] = Idle]
       /\ last' = Result("developerGet", r, r.data) @@ [caller |-> req.tok.userId]
       /\ UNCHANGED <<developers, employers, jobRequests, projects, now>>

\* The steps of a create and of a delete after their first.
ProjectCreateSteps(s) ==
    \/ ProjectCreateSave(s)
    \/ ProjectCreatePush(s)
    \/ ProjectCreatePopulate(s)

ProjectDeleteSteps(s) ==
    \/ ProjectDeleteFind(s)
    \/ ProjectDeletePull(s)
    \/ ProjectDeleteRemove(s)

----------------------------------------------------------------------------
(* ProjSpec: the routes that write a project, GET /projects/:id and        *)
(* GET /developers/:id. Updates and deletions name the first project or a  *)
(* project that does not exist.                                            *)

ProjectWriteIds == {1, MaxProjects + 1}

\* The developers and a caller without a token.
ProjConcTokens == {DevCaller(d) : d \in DevIds} \cup {NoToken}

ProjNext ==
    \/ \E s \in Slots : ProjectCreateBegin(s, ProjConcTokens, ProjectCreateBodies, MaxProjects)
    \/ \E s \in Slots : ProjectCreateSteps(s)
    \/ \E s \in Slots : ProjectUpdateBegin(s, Tokens, ProjectWriteIds, ProjectUpdateBodies)
    \/ \E s \in Slots : ProjectUpdateFind(s)
    \/ \E s \in Slots : ProjectUpdateWrite(s)
    \/ \E s \in Slots : ProjectUpdatePopulate(s)
    \/ \E s \in Slots : ProjectDeleteBegin(s, Tokens, ProjectWriteIds)
    \/ \E s \in Slots : ProjectDeleteSteps(s)
    \/ \E s \in Slots : ProjectGetBegin(s, ProjConcTokens, ProjectWriteIds)
    \/ \E s \in Slots : ProjectGetPopulate(s)
    \/ \E s \in Slots : DeveloperGetBegin(s, {NoToken}, {"d1", GhostId, BadId})
    \/ \E s \in Slots : DeveloperGetPopulate(s)
    \/ Respond

ProjSpec == Init /\ [][ProjNext]_vars

----------------------------------------------------------------------------
(* ProjConcSpec: project creates and deletes of the two developers.        *)

ProjConcBodies == {ProjectBody("p1", pub, FALSE) : pub \in {None, "false"}}

ProjConcNext ==
    \/ \E s \in Slots : ProjectCreateBegin(s, ProjConcTokens, ProjConcBodies, MaxConcProjects)
    \/ \E s \in Slots : ProjectCreateSteps(s)
    \/ \E s \in Slots : ProjectDeleteBegin(s, ProjConcTokens, ProjIds)
    \/ \E s \in Slots : ProjectDeleteSteps(s)
    \/ Respond

ProjConcSpec == Init /\ [][ProjConcNext]_vars

----------------------------------------------------------------------------
(* ProjReadSpec: projects are created, listed and read.                   *)

ProjectReadQueries ==
    {[developerId |-> None, page |-> 1, limit |-> 10],
     [developerId |-> "d1", page |-> 2, limit |-> 1]}

ProjReadNext ==
    \/ \E s \in Slots : ProjectCreateBegin(s, ProjConcTokens, ProjConcBodies, MaxProjects)
    \/ \E s \in Slots : ProjectCreateSteps(s)
    \/ \E s \in Slots : ProjectListBegin(s, ProjectReadQueries)
    \/ \E s \in Slots : ProjectsOfDeveloperBegin(s, ProjectReadQueries)
    \/ \E s \in Slots : MyProjectsBegin(s, ProjConcTokens, ProjectReadQueries)
    \/ \E s \in Slots : ProjectsRead(s)
    \/ \E s \in Slots : ProjectGetBegin(s, ProjConcTokens, ProjectWriteIds)
    \/ \E s \in Slots : ProjectGetPopulate(s)
    \/ \E s \in Slots : DeveloperGetBegin(s, {NoToken}, {"d1"})
    \/ \E s \in Slots : DeveloperGetPopulate(s)
    \/ Respond

ProjReadSpec == Init /\ [][ProjReadNext]_vars

----------------------------------------------------------------------------
(* Properties of the project routes *)

StoredProjects == {i \in DOMAIN projects : IsDoc(projects[i])}

\* The ids of a projects list.
ListIds(list) == {list[k] : k \in 1..Len(list)}

OwnedBy(d) == {i \in StoredProjects : projects[i].developerId = d}

\* C11: for a Project with isPublic = false, GET /projects/:id without
\* credentials fails with 403, and the same GET with the owning developer's
\* valid token succeeds with 200 and returns the project.
C11_OwnerReadsPrivateProject ==
    Ready =>
        \A i \in StoredProjects :
            ~projects[i].isPublic =>
                LET anon == ProjectGetHandler(NoToken, i, developers, employers, projects)
                    own == ProjectGetHandler(DevCaller(projects[i].developerId), i,
                                             developers, employers, projects)
                IN /\ anon.status = 403 /\ anon.data = {}
                   /\ own.status = 200 /\ own.data = {i}

\* The developer a request is made by: the account of its token, if the
\* token authenticates as a Developer.
CallerOf(tok) ==
    LET auth == authenticateToken(tok, developers, employers)
    IN IF auth.ok /\ auth.userRole = "Developer" THEN auth.userId ELSE None

AllProjectQueries == [developerId : {None} \cup DevIds, page : {1, 2}, limit : {1, 2, 10}]

\* The replies of the endpoints that return projects, for one caller.
ProjectReads(tok) ==
    UNION {ProjectListHandler(tok, q, developers, employers, projects) : q \in AllProjectQueries}
    \cup UNION {ProjectsOfDeveloperHandler(tok, d, q, developers, employers, projects) :
                  d \in DevParams, q \in AllProjectQueries}
    \cup {ProjectGetHandler(tok, i, developers, employers, projects) : i \in ProjIds}
    \cup {DeveloperGetHandler(tok, d, developers, employers, projects) : d \in DevParams}

\* C12: no endpoint returns data of a Project with isPublic = false to a
\* caller who is not its owning developer: the project list, the projects of
\* a developer, the project get-by-id and GET /developers/:id.
C12_PrivateProjectsStayPrivate ==
    Ready =>
        \A tok \in AllTokens :
            \A r \in ProjectReads(tok) :
                \A i \in r.data :
                    ~projects[i].isPublic => CallerOf(tok) = projects[i].developerId

\* C12 happens: GET /projects/developer/:developerId returned a project of a
\* developer who also has a private one, and left the private one out.
C12_Witness ==
    /\ last.op = "projectsOfDeveloper"
    /\ last.status = 200
    /\ \E i \in last.data, j \in StoredProjects \ last.data :
          /\ projects[j].developerId = projects[i].developerId
          /\ ~projects[j].isPublic

ValidProjectBodies == {ProjectBody("p1", pub, FALSE) : pub \in JsonBool}

\* C13: with no request in flight, every Developer's projects list holds
\* exactly the ids of the Project documents whose developerId it is, none
\* twice; a create adds exactly the new id to the owner's list and a delete
\* removes exactly the deleted id.
C13_ListsMatchProjects ==
    Ready =>
        /\ \A d \in DOMAIN developers :
              /\ ListIds(developers[d].projects) = OwnedBy(d)
              /\ Len(developers[d].projects) = Cardinality(OwnedBy(d))
        /\ \A d \in DOMAIN developers, body \in ValidProjectBodies, at \in SaveTimes(now) :
              LET r == ProjectCreateHandler(DevCaller(d), body, developers, employers, projects, at)
              IN /\ r.status = 201
                 /\ r.devs = [developers EXCEPT
                                ![d].projects = Append(@, NextProjectId(projects))]
                 /\ DOMAIN r.projs \ DOMAIN projects = {NextProjectId(projects)}
                 /\ r.projs[NextProjectId(projects)].developerId = d
        /\ \A i \in StoredProjects :
              LET d == projects[i].developerId
                  r == ProjectDeleteHandler(DevCaller(d), i, developers, employers, projects)
              IN /\ r.status = 200
                 /\ ~IsDoc(r.projs[i])
                 /\ \A j \in DOMAIN projects \ {i} : r.projs[j] = projects[j]
                 /\ r.devs = [developers EXCEPT
                                ![d].projects = SelectSeq(@, LAMBDA x : x # i)]
                 /\ ListIds(r.devs[d].projects) = ListIds(developers[d].projects) \ {i}

\* C14: project create and project delete change the Project collection and
\* the owner's list in one step: in no state that another request can see
\* does a Project document exist without its id in the owner's list, or is
\* the id gone from the list while the document still exists.
C14_ProjectAndListTogether ==
    \A i \in StoredProjects :
        i \in ListIds(developers[projects[i].developerId].projects)

\* C15: project update and delete succeed only for the Developer whose id is
\* the project's developerId; a call by any other Developer fails with 403
\* and leaves the Project document and every projects list unchanged.
C15_OnlyOwnerWritesProject ==
    Ready =>
        \A i \in StoredProjects, body \in ValidProjectBodies :
            LET owner == projects[i].developerId
                Writes(tok) ==
                    {ProjectUpdateHandler(tok, i, body, developers, employers, projects),
                     ProjectDeleteHandler(tok, i, developers, employers, projects)}
            IN /\ \A d \in DOMAIN developers \ {owner} :
                    \A r \in Writes(DevCaller(d)) :
                        r.status = 403 /\ r.projs = projects /\ r.devs = developers
               /\ \A tok \in AllTokens :
                    \A r \in Writes(tok) :
                        (r.status = 200 \/ r.projs # projects \/ r.devs # developers)
                        => tok = DevCaller(owner)

\* C15 happens: a delete by a developer that does not own the project was
\* refused with 403, the project still stored.
C15_Witness ==
    /\ last.op = "projectDelete"
    /\ last.status = 403
    /\ last.message = "Access denied. You can only delete your own projects."
    /\ StoredProjects # {}

----------------------------------------------------------------------------
(* routes/auth.js: signup and login *)

MaxSignups == 2         \* accounts created in AuthSpec
MaxConcSignups == 2     \* accounts created in AuthConcSpec

\* The _id of the next document of a collection, an ObjectId no other has.
NewAccountId(kind, coll) ==
    (IF kind = "Developer" THEN DevIdPool ELSE EmpIdPool)[Cardinality(DOMAIN coll) - 1]

\* Joi.string().email(): "bad" stands for a string that is no email address.
JoiEmail(email) == email \notin {None, "", "bad"}

\* schemas.developerSignup / schemas.employerSignup; body.complete stands for
\* the other required fields being there and well formed, "short" for a
\* password under 6 characters.
ValidSignup(b) ==
    /\ b.complete
    /\ JoiEmail(b.email)
    /\ b.password \notin {None, "", "short"}

\* schemas.login
ValidLogin(b) ==
    /\ JoiEmail(b.email)
    /\ b.password \notin {None, ""}
    /\ b.userType \in {"Developer", "Employer"}

\* Model.findOne({ email }) compared as the strings are, without the setters.
FindByEmailExact(coll, email) == {u \in DOMAIN coll : coll[u].email = email}

\* Model.findOne({ email }): the accounts of a collection with this email.
FindByEmail(coll, email) == {u \in DOMAIN coll : coll[u].email = NormalizeEmail(email)}

\* A collection without a unique index on email.
DuplicateKeyNever(coll, email) == FALSE

\* The unique index on email: a save of a second document with the email of
\* a stored one fails with the duplicate key error E11000.
DuplicateKey(coll, email) == \E u \in DOMAIN coll : coll[u].email = NormalizeEmail(email)

\* new Developer(req.body) / new Employer(req.body) with the schema defaults.
NewAccount(kind, b) ==
    IF kind = "Developer"
    THEN [isAvailable |-> TRUE, role |-> "Developer", projects |-> <<>>,
          email |-> NormalizeEmail(b.email), password |-> bcryptHash(b.password)]
         @@ NewProfile("Ann", "Lee")
    ELSE [role |-> "Employer",
          email |-> NormalizeEmail(b.email), password |-> bcryptHash(b.password)]

\* A response of an auth route: the collections it leaves and the token it
\* issues, in the body and in the token cookie.
AuthReply(code, msg, devs, emps, token) ==
    [status |-> code, message |-> msg, devs |-> devs, emps |-> emps, token |-> token]

\* The error middleware of the server: whatever a handler throws.
ServerError(devs, emps) == AuthReply(500, "Something went wrong!", devs, emps, NoToken)

Accounts(kind, devs, emps) == IF kind = "Developer" THEN devs ELSE emps

\* document.save() of a signup, called at time at, and the 201 response
\* with the token.
SignupSave(kind, body, devs, emps, at) ==
    LET coll == Accounts(kind, devs, emps)
        id == NewAccountId(kind, coll)
        saved == coll @@ (id :> Stamped(NewAccount(kind, body), at))
    IN IF ~EmailMatches(NormalizeEmail(body.email)) \/ DuplicateKey(coll, body.email)
       THEN ServerError(devs, emps)
       ELSE AuthReply(201, kind \o " created successfully",
                      IF kind = "Developer" THEN saved ELSE devs,
                      IF kind = "Employer" THEN saved ELSE emps,
                      SignedToken(id, kind))
            @@ [data |-> getPublicProfile(saved[id])]

\* POST /auth/developer/signup and POST /auth/employer/signup; at is the
\* time save() is called at.
SignupHandler(kind, body, devs, emps, at) ==
    IF ~ValidSignup(body) THEN AuthReply(400, "Validation error", devs, emps, NoToken)
    ELSE IF FindByEmail(Accounts(kind, devs, emps), body.email) # {}
    THEN AuthReply(409, kind \o " with this email already exists", devs, emps, NoToken)
    ELSE SignupSave(kind, body, devs, emps, at)

\* A login that tells a missing account from a wrong password.
LoginCheckRevealing(userType, found, password, devs, emps) ==
    IF found = {} THEN AuthReply(404, "User not found", devs, emps, NoToken)
    ELSE LET u == CHOOSE x \in found : TRUE
         IN IF ~comparePassword(password, Accounts(userType, devs, emps)[u].password)
            THEN AuthReply(401, "Invalid credentials", devs, emps, NoToken)
            ELSE AuthReply(200, "Login successful", devs, emps, SignedToken(u, userType))
                 @@ [data |-> getPublicProfile(Accounts(userType, devs, emps)[u])]

\* user.comparePassword(password) on the document findOne answered, the
\* token signed for it and the response.
LoginCompared(userType, u, doc, password, devs, emps) ==
    IF ~comparePassword(password, doc.password)
    THEN AuthReply(401, "Invalid credentials", devs, emps, NoToken)
    ELSE AuthReply(200, "Login successful", devs, emps, SignedToken(u, userType))
         @@ [data |-> getPublicProfile(doc)]

\* The checks of POST /auth/login on the account found and its password, and
\* the token signed for it.
LoginCheck(userType, found, password, devs, emps) ==
    IF found = {} THEN AuthReply(401, "Invalid credentials", devs, emps, NoToken)
    ELSE LET u == CHOOSE x \in found : TRUE
         IN LoginCompared(userType, u, Accounts(userType, devs, emps)[u], password, devs, emps)

\* POST /auth/login
LoginHandler(body, devs, emps) ==
    IF ~ValidLogin(body) THEN AuthReply(400, "Validation error", devs, emps, NoToken)
    ELSE LoginCheck(body.userType, FindByEmail(Accounts(body.userType, devs, emps), body.email),
                    body.password, devs, emps)

\* schemas.changePassword: "short" stands for a password under 6 characters.
ValidChangePassword(b) ==
    b.currentPassword \notin {None, ""} /\ b.newPassword \notin {None, "", "short"}

\* A change-password that skips the comparison with the stored password.
ChangePasswordCheckNone(auth, body, devs, emps) == FALSE

\* user.comparePassword(currentPassword) on the password read: TRUE when
\* the request is refused.
CurrentPasswordWrong(body, stored) == ~comparePassword(body.currentPassword, stored)

\* The comparePassword check of change-password: TRUE when the request is
\* refused.
ChangePasswordCheck(auth, body, devs, emps) ==
    CurrentPasswordWrong(body, Accounts(auth.userRole, devs, emps)[auth.userId].password)

\* user.password = newPassword; user.save(), whose pre('save') hook stores
\* the hash.
SavePassword(coll, id, newPassword) ==
    IF id \notin DOMAIN coll THEN coll
    ELSE [coll EXCEPT ![id].password = bcryptHash(newPassword)]

\* POST /auth/change-password
ChangePasswordHandler(tok, body, devs, emps) ==
    LET auth == Guard(tok, devs, emps, {})
    IN IF ~auth.ok THEN AuthReply(auth.status, auth.message, devs, emps, NoToken)
       ELSE IF ~ValidChangePassword(body)
            THEN AuthReply(400, "Validation error", devs, emps, NoToken)
       ELSE IF ChangePasswordCheck(auth, body, devs, emps)
            THEN AuthReply(400, "Current password is incorrect", devs, emps, NoToken)
       ELSE AuthReply(200, "Password changed successfully",
                      IF auth.userRole = "Developer"
                      THEN SavePassword(devs, auth.userId, body.newPassword) ELSE devs,
                      IF auth.userRole = "Employer"
                      THEN SavePassword(emps, auth.userId, body.newPassword) ELSE emps, NoToken)

\* A logout that removes the account of the caller.
LogoutHandlerRemoving(tok, devs, emps) ==
    LET auth == Guard(tok, devs, emps, {})
    IN IF ~auth.ok THEN AuthReply(auth.status, auth.message, devs, emps, NoToken)
       ELSE AuthReply(200, "Logout successful",
                      [d \in DOMAIN devs \ {auth.userId} |-> devs[d]],
                      [e \in DOMAIN emps \ {auth.userId} |-> emps[e]], NoToken)

\* POST /auth/logout: res.clearCookie('token') and the 200 response; the
\* reply's token is the value the token cookie is left with.
LogoutHandler(tok, devs, emps) ==
    LET auth == Guard(tok, devs, emps, {})
    IN IF ~auth.ok THEN AuthReply(auth.status, auth.message, devs, emps, NoToken)
       ELSE AuthReply(200, "Logout successful", devs, emps, NoToken)

----------------------------------------------------------------------------
(* middlewares/auth.js: the token of a request; GET /auth/me *)

Present(tok) == tok.kind # "missing"

\* A request's credentials: the words of its Authorization header (<<>> when
\* there is none) and the token and access_token cookies cookieParser read.
Request(authorization, token, access_token) ==
    [authorization |-> authorization, cookies |-> [token |-> token, access_token |-> access_token]]

\* The cookie read before the header.
TokenOfCookieFirst(req) ==
    LET headerToken == IF Len(req.authorization) >= 2 THEN req.authorization[2] ELSE NoToken
        cookieToken == IF Present(req.cookies.token) THEN req.cookies.token
                       ELSE req.cookies.access_token
    IN IF Present(cookieToken) THEN cookieToken ELSE headerToken

\* authHeader.split(' ')[1] || req.cookies.token || req.cookies.access_token
TokenOf(req) ==
    LET headerToken == IF Len(req.authorization) >= 2 THEN req.authorization[2] ELSE NoToken
        cookieToken == IF Present(req.cookies.token) THEN req.cookies.token
                       ELSE req.cookies.access_token
    IN IF Present(headerToken) THEN headerToken ELSE cookieToken

\* GET /auth/me: authenticateToken, then the account as data.
MeHandler(req, devs, emps) ==
    LET auth == authenticateToken(TokenOf(req), devs, emps)
    IN IF ~auth.ok THEN [status |-> auth.status, message |-> auth.message, data |-> None]
       ELSE [status |-> 200, message |-> None, data |-> auth.userId]

----------------------------------------------------------------------------
(* routes/developers.js, routes/employers.js: DELETE /:id *)

\* Model.findByIdAndDelete(id)
DeleteAccount(coll, id) == [u \in DOMAIN coll \ {id} |-> coll[u]]

\* DELETE /developers/:id and DELETE /employers/:id
AccountDeleteHandler(kind, tok, id, devs, emps) ==
    LET auth == Guard(tok, devs, emps, {"Admin"})
        coll == Accounts(kind, devs, emps)
        left == DeleteAccount(coll, id)
    IN IF ~auth.ok THEN AuthReply(auth.status, auth.message, devs, emps, NoToken)
       ELSE IF id \notin DOMAIN coll THEN AuthReply(404, kind \o " not found", devs, emps, NoToken)
       ELSE AuthReply(200, kind \o " deleted successfully",
                      IF kind = "Developer" THEN left ELSE devs,
                      IF kind = "Employer" THEN left ELSE emps, NoToken)

----------------------------------------------------------------------------
(* AuthSpec: signup, login, change-password, logout, GET /auth/me and the   *)
(* account deletes.                                                        *)

Kinds == {"Developer", "Employer"}

SignupBody(email, password, complete) ==
    [email |-> email, password |-> password, complete |-> complete]

LoginBody(email, password, userType) ==
    [email |-> email, password |-> password, userType |-> userType]

\* Tokens on the wire: issued ones, one of an account that is not there, a
\* string that is no token and an expired one.
WireTokens ==
    {DevCaller("d1"), DevCaller("d3"), EmpCaller("e1"), SignedToken(GhostId, "Developer"),
     BadToken, ExpiredToken}

Headers == {<<>>, <<"garbage">>} \cup {<<"Bearer", t>> : t \in WireTokens \cup {NoToken}}

MeRequests ==
    {Request(h, c, a) : h \in Headers, c \in {NoToken, DevCaller("d2"), BadToken},
                        a \in {NoToken, EmpCaller("e1")}}

AuthResult(op, r) ==
    [op |-> op, status |-> r.status, message |-> r.message, token |-> r.token,
     data |-> IF "data" \in DOMAIN r THEN r.data ELSE NoDoc]

ChangePasswordBody(currentPassword, newPassword) ==
    [currentPassword |-> currentPassword, newPassword |-> newPassword]

SigningUp == {s \in Slots : inflight[s].pc = "signupSave"}

\* A signup: validation, findOne({email}) and the 409; without an account
\* of the email the handler calls save(), which reads the clock.
SignupBegin(s, bodies, cap) ==
    \E kind \in Kinds, body \in bodies :
        /\ FreeSlot(s) /\ last = NoResponse
        /\ IF ~ValidSignup(body)
           THEN /\ last' = AuthResult("signup", AuthReply(400, "Validation error",
                                                           developers, employers, NoToken))
                /\ inflight' = inflight
                /\ now' = now
           ELSE IF FindByEmail(Accounts(kind, developers, employers), body.email) # {}
           THEN /\ last' = AuthResult("signup", AuthReply(409, kind \o " with this email already exists",
                                                           developers, employers, NoToken))
                /\ inflight' = inflight
                /\ now' = now
           ELSE /\ Cardinality(DOMAIN developers) + Cardinality(DOMAIN employers)
                      + Cardinality(SigningUp) < Cardinality(DevIds) + Cardinality(EmpIds) + cap
                /\ \E t \in SaveTimes(now) :
                      /\ now' = t
                      /\ Continue(s, [pc |-> "signupSave", kind |-> kind, body |-> body,
                                      createdAt |-> t])
        /\ UNCHANGED <<developers, employers, jobRequests, projects>>

\* save() and the response: 201 with the token, or the duplicate key error.
SignupFinish(s) ==
    LET r == SignupSave(inflight[s].kind, inflight[s].body, developers, employers,
                        inflight[s].createdAt)
    IN /\ At(s, "signupSave")
       /\ developers' = r.devs
       /\ employers' = r.emps
       /\ inflight' = [inflight EXCEPT ![s] = Idle]
       /\ last' = AuthResult("signup", r)
       /\ UNCHANGED <<jobRequests, projects, now>>

\* POST /auth/login: validate and findOne({ email }).select('+password').
\* No account is answered 401 at once; an account found is compared next.
\* last.request is the request the response answers.
LoginFind(s, bodies) ==
    \E body \in bodies :
        LET found == FindByEmail(Accounts(body.userType, developers, employers), body.email)
            u == CHOOSE x \in found : TRUE
        IN /\ FreeSlot(s) /\ last = NoResponse
           /\ IF ~ValidLogin(body) \/ found = {}
              THEN /\ inflight' = inflight
                   /\ last' = AuthResult("login", LoginHandler(body, developers, employers))
                              @@ [request |-> body]
              ELSE Continue(s, [pc |-> "loginCompare", body |-> body, userId |-> u,
                                user |-> Accounts(body.userType, developers, employers)[u]])
           /\ UNCHANGED <<developers, employers, jobRequests, projects, now>>

\* await user.comparePassword(password) on the document read, and the
\* response.
LoginCompare(s) ==
    LET req == inflight[s]
    IN /\ At(s, "loginCompare")
       /\ inflight' = [inflight EXCEPT ![s] = Idle]
       /\ last' = AuthResult("login", LoginCompared(req.body.userType, req.userId, req.user,
                                                    req.body.password, developers, employers))
                  @@ [request |-> req.body]
       /\ UNCHANGED <<developers, employers, jobRequests, projects, now>>

\* GET /auth/me: the account lookup of authenticateToken is its only await.
Me(reqs) ==
    \E req \in reqs :
        LET r == MeHandler(req, developers, employers)
        IN /\ last = NoResponse
           /\ last' = [op |-> "me", status |-> r.status, message |-> r.message,
                       data |-> r.data, request |-> req]
           /\ UNCHANGED <<developers, employers, jobRequests, projects, inflight, now>>

\* DELETE /developers/:id and DELETE /employers/:id: authenticateToken and
\* authorizeRole('Admin'), then, for the request that passed them,
\* findByIdAndDelete.
AccountDelete(s, toks) ==
    IF inflight[s].pc = "accountDelete"
    THEN LET req == inflight[s]
             coll == Accounts(req.kind, developers, employers)
             left == DeleteAccount(coll, req.id)
         IN /\ last = NoResponse
            /\ developers' = IF req.kind = "Developer" THEN left ELSE developers
            /\ employers' = IF req.kind = "Employer" THEN left ELSE employers
            /\ inflight' = [inflight EXCEPT ![s] = Idle]
            /\ last' = AuthResult("accountDelete",
                           IF req.id \notin DOMAIN coll
                           THEN AuthReply(404, req.kind \o " not found", developers, employers, NoToken)
                           ELSE AuthReply(200, req.kind \o " deleted successfully",
                                          developers', employers', NoToken))
            /\ UNCHANGED <<jobRequests, projects, now>>
    ELSE \E kind \in Kinds, tok \in toks, id \in {"d1", "e1", GhostId} :
            LET auth == Guard(tok, developers, employers, {"Admin"})
            IN /\ FreeSlot(s) /\ last = NoResponse
               /\ IF ~auth.ok
                  THEN /\ inflight' = inflight
                       /\ last' = AuthResult("accountDelete",
                                      AuthReply(auth.status, auth.message, developers, employers, NoToken))
                  ELSE Continue(s, [pc |-> "accountDelete", kind |-> kind, id |-> id])
               /\ UNCHANGED <<developers, employers, jobRequests, projects, now>>

\* POST /auth/change-password: authenticateToken and
\* validate(schemas.changePassword).
ChangePasswordBegin(s, toks, bodies) ==
    \E tok \in toks, body \in bodies :
        LET auth == Guard(tok, developers, employers, {})
            refused(r) == /\ inflight' = inflight
                          /\ last' = AuthResult("changePassword", r) @@ [caller |-> tok, request |-> body]
        IN /\ FreeSlot(s) /\ last = NoResponse
           /\ IF ~auth.ok
              THEN refused(AuthReply(auth.status, auth.message, developers, employers, NoToken))
              ELSE IF ~ValidChangePassword(body)
              THEN refused(AuthReply(400, "Validation error", developers, employers, NoToken))
              ELSE Continue(s, [pc |-> "passwordFind", auth |-> auth, caller |-> tok, body |-> body])
           /\ UNCHANGED <<developers, employers, jobRequests, projects, now>>

\* findById(req.user._id).select('+password'): the document is read.
ChangePasswordFind(s) ==
    LET req == inflight[s]
    IN /\ At(s, "passwordFind")
       /\ Continue(s, [req EXCEPT !.pc = "passwordCompare"]
                      @@ [stored |-> Accounts(req.auth.userRole, developers,
                                              employers)[req.auth.userId].password])
       /\ UNCHANGED <<developers, employers, jobRequests, projects, now>>

\* await user.comparePassword(currentPassword) on the document read, and the
\* 400 response when it fails.
ChangePasswordCompare(s) ==
    LET req == inflight[s]
    IN /\ At(s, "passwordCompare")
       /\ IF CurrentPasswordWrong(req.body, req.stored)
          THEN /\ inflight' = [inflight EXCEPT ![s] = Idle]
               /\ last' = AuthResult("changePassword",
                              AuthReply(400, "Current password is incorrect",
                                        developers, employers, NoToken))
                          @@ [caller |-> req.caller, request |-> req.body]
          ELSE Continue(s, [pc |-> "passwordSave", auth |-> req.auth, caller |-> req.caller,
                            body |-> req.body])
       /\ UNCHANGED <<developers, employers, jobRequests, projects, now>>

\* user.save(): the pre('save') hook hashes the new password, the write
\* stores it; then the 200 response.
ChangePasswordSave(s) ==
    LET req == inflight[s]
    IN /\ At(s, "passwordSave")
       /\ developers' = IF req.auth.userRole = "Developer"
                        THEN SavePassword(developers, req.auth.userId, req.body.newPassword)
                        ELSE developers
       /\ employers' = IF req.auth.userRole = "Employer"
                       THEN SavePassword(employers, req.auth.userId, req.body.newPassword)
                       ELSE employers
       /\ inflight' = [inflight EXCEPT ![s] = Idle]
       /\ last' = AuthResult("changePassword",
                      AuthReply(200, "Password changed successfully", developers', employers', NoToken))
                  @@ [caller |-> req.caller, request |-> req.body]
       /\ UNCHANGED <<jobRequests, projects, now>>

\* POST /auth/logout: the account lookup of authenticateToken is its only
\* await. last.caller is the token of the request.
Logout(toks) ==
    \E tok \in toks :
        LET r == LogoutHandler(tok, developers, employers)
        IN /\ last = NoResponse
           /\ developers' = r.devs
           /\ employers' = r.emps
           /\ last' = AuthResult("logout", r) @@ [caller |-> tok]
           /\ UNCHANGED <<jobRequests, projects, inflight, now>>

\* AuthSpec: signups, logins, password changes of d1 and logouts.
SignupBodies ==
    {SignupBody(email, "secret1", TRUE) : email \in {"a@x.com", "N@x.com", "bad"}}
    \cup {SignupBody("n@x.com", "secret2", TRUE)}

LoginBodies ==
    {LoginBody(email, "secret2", "Developer") : email \in {"a@x.com", "n@x.com", "z@x.com"}}
    \cup {LoginBody("a@x.com", "secret1", "Admin"), LoginBody("b@x.com", "secret1", "Employer"),
          LoginBody("a@x.com", "", "Developer")}

AuthTokens == {DevCaller("d1"), NoToken}

ChangePasswordBodies ==
    {ChangePasswordBody("secret1", "secret2"), ChangePasswordBody("secret2", "long72a"),
     ChangePasswordBody("secret1", "short")}

AuthNext ==
    \/ \E s \in Slots : SignupBegin(s, SignupBodies, MaxSignups)
    \/ \E s \in Slots : SignupFinish(s)
    \/ \E s \in Slots : LoginFind(s, LoginBodies)
    \/ \E s \in Slots : LoginCompare(s)
    \/ \E s \in Slots : ChangePasswordBegin(s, AuthTokens, ChangePasswordBodies)
    \/ \E s \in Slots : ChangePasswordFind(s)
    \/ \E s \in Slots : ChangePasswordCompare(s)
    \/ \E s \in Slots : ChangePasswordSave(s)
    \/ Logout(AuthTokens)
    \/ Respond

AuthSpec == Init /\ [][AuthNext]_vars

----------------------------------------------------------------------------
(* TokenSpec: accounts sign up and requests present their tokens to        *)
(* GET /auth/me and to the Admin-only deletion of an account.              *)

TokenSignupBodies == {SignupBody("n@x.com", "secret1", TRUE)}

TokenNext ==
    \/ \E s \in Slots : SignupBegin(s, TokenSignupBodies, MaxSignups)
    \/ \E s \in Slots : SignupFinish(s)
    \/ Me(MeRequests)
    \/ \E s \in Slots : AccountDelete(s, Tokens)
    \/ Respond

TokenSpec == Init /\ [][TokenNext]_vars

----------------------------------------------------------------------------
(* AuthConcSpec: signups with the same and with different emails.          *)

ConcSignupBodies ==
    {SignupBody(email, "secret1", TRUE) : email \in {"a@x.com", "n@x.com", "N@x.com", "m@x.com"}}

AuthConcNext ==
    \/ \E s \in Slots : SignupBegin(s, ConcSignupBodies, MaxConcSignups)
    \/ \E s \in Slots : SignupFinish(s)
    \/ Respond

AuthConcSpec == Init /\ [][AuthConcNext]_vars

----------------------------------------------------------------------------
(* Properties of signup, login and authentication *)

RawEmails == {"a@x.com", "A@x.com", " a@x.com", "b@x.com", "c@x.com", "n@x.com", "N@x.com", "m@x.com"}

ValidSignupBodies == {SignupBody(email, pw, TRUE) : email \in RawEmails, pw \in {"secret1", "secret2"}}

\* An account of the collection has this email address.
EmailInUse(coll, email) == \E u \in DOMAIN coll : coll[u].email = NormalizeEmail(email)

\* C16: a signup of an account kind with an email that an account of that
\* kind already has fails with 409, creates no account and issues no token.
C16_DuplicateSignupConflict ==
    Ready =>
        \A kind \in Kinds, body \in ValidSignupBodies, at \in SaveTimes(now) :
            EmailInUse(Accounts(kind, developers, employers), body.email) =>
                LET r == SignupHandler(kind, body, developers, employers, at)
                IN /\ r.status = 409
                   /\ r.devs = developers /\ r.emps = employers
                   /\ r.token = NoToken

\* C16 happens: after a signup created an account, a signup was refused with
\* 409 and got no token.
C16_Witness ==
    /\ last.op = "signup"
    /\ last.status = 409
    /\ last.token = NoToken
    /\ DOMAIN developers # DevIds

UniqueEmails(coll) == \A u, v \in DOMAIN coll : u # v => coll[u].email # coll[v].email

\* C17: under any interleaving of signups no two Developer accounts share an
\* email and no two Employer accounts share an email; the kinds are separate
\* namespaces: an email a Developer has does not prevent an Employer signup
\* with it, and vice versa.
C17_EmailsUniquePerKind ==
    /\ UniqueEmails(developers)
    /\ UniqueEmails(employers)
    /\ Ready =>
          \A kind \in Kinds, body \in ValidSignupBodies, at \in SaveTimes(now) :
              LET other == IF kind = "Developer" THEN "Employer" ELSE "Developer"
                  r == SignupHandler(kind, body, developers, employers, at)
              IN (/\ EmailInUse(Accounts(other, developers, employers), body.email)
                  /\ ~EmailInUse(Accounts(kind, developers, employers), body.email))
                 => /\ r.status = 201
                    /\ DOMAIN Accounts(kind, r.devs, r.emps)
                          # DOMAIN Accounts(kind, developers, employers)

\* C17 happens: of signups in flight together one created the account and
\* the save of another was refused, while a Developer and an Employer share
\* an email.
C17_Witness ==
    /\ last.op = "signup"
    /\ last.status = 500
    /\ DOMAIN developers # DevIds \/ DOMAIN employers # EmpIds
    /\ \E d \in DOMAIN developers, e \in DOMAIN employers :
          developers[d].email = employers[e].email

LoginPasswords == {"secret1", "secret2", "wrong"}

\* C18: a login with an email that no account of the kind has and a login
\* with the email of an account and a wrong password get the same status 401
\* and the same message, and neither gets a token.
C18_LoginFailuresAlike ==
    Ready =>
        \A kind \in Kinds, unknown \in RawEmails \cup {"z@x.com"}, pw \in LoginPasswords :
          \A u \in DOMAIN Accounts(kind, developers, employers), wrong \in LoginPasswords :
            LET coll == Accounts(kind, developers, employers)
                absent == LoginHandler(LoginBody(unknown, pw, kind), developers, employers)
                refused == LoginHandler(LoginBody(coll[u].email, wrong, kind), developers, employers)
            IN (~EmailInUse(coll, unknown) /\ coll[u].password # bcryptHash(wrong))
               => /\ absent.status = 401 /\ refused.status = 401
                  /\ absent.message = refused.message
                  /\ absent.token = NoToken /\ refused.token = NoToken

\* C18 happens: a login with the email of an account and a wrong password
\* was refused with 401.
C18_Witness ==
    /\ last.op = "login"
    /\ last.status = 401
    /\ last.request.userType = "Developer"
    /\ \E d \in DOMAIN developers :
          /\ developers[d].email = NormalizeEmail(last.request.email)
          /\ developers[d].password # bcryptHash(last.request.password)

AllWireTokens ==
    AllTokens \cup {SignedToken(u, "Developer") : u \in DOMAIN developers}
              \cup {SignedToken(u, "Employer") : u \in DOMAIN employers}

\* A request carrying one token, in the header or in one of the cookies.
Carrying(tok) ==
    {Request(<<"Bearer", tok>>, NoToken, NoToken), Request(<<>>, tok, NoToken),
     Request(<<>>, NoToken, tok)}

\* The account a token names exists.
NamesAccount(tok, devs, emps) ==
    /\ tok.kind = "signed"
    /\ \/ tok.role = "Developer" /\ tok.userId \in DOMAIN devs
       \/ tok.role = "Employer" /\ tok.userId \in DOMAIN emps

\* C19: a protected route runs its handler only for a token that is valid,
\* unexpired and names an existing account, and answers 401 otherwise; once
\* an account is deleted every request with a token issued for it fails
\* with 401; an invalid and an expired token get 401 responses that differ.
C19_OnlyLiveAccountsAuthenticate ==
    Ready =>
        /\ \A tok \in AllWireTokens :
              \A req \in Carrying(tok) :
                 LET r == MeHandler(req, developers, employers)
                 IN IF NamesAccount(tok, developers, employers)
                    THEN r.status = 200 /\ r.data = tok.userId
                    ELSE r.status = 401 /\ r.data = None
        /\ \A d \in DOMAIN developers :
              \A req \in Carrying(DevCaller(d)) :
                 MeHandler(req, DeleteAccount(developers, d), employers).status = 401
        /\ \A e \in DOMAIN employers :
              \A req \in Carrying(EmpCaller(e)) :
                 MeHandler(req, developers, DeleteAccount(employers, e)).status = 401
        /\ \A r1 \in Carrying(BadToken), r2 \in Carrying(ExpiredToken) :
              LET invalid == MeHandler(r1, developers, employers)
                  expired == MeHandler(r2, developers, employers)
              IN /\ invalid.status = 401 /\ expired.status = 401
                 /\ invalid.message # expired.message

\* C19 happens: a request with a valid token of an account that is not
\* there was refused with 401.
C19_Witness ==
    /\ last.op = "me"
    /\ last.status = 401
    /\ last.message = "User not found"
    /\ TokenOf(last.request).kind = "signed"

\* C20: a token issued by signup or login authenticates in the Authorization
\* header and in the token or access_token cookie; with a token in the
\* header and one in a cookie the header token alone decides: an invalid
\* header token gets 401 even with a valid token in the cookie.
C20_HeaderDecides ==
    /\ (last.op \in {"signup", "login"} /\ Present(last.token)) =>
          \A req \in Carrying(last.token) :
              LET r == MeHandler(req, developers, employers)
              IN r.status = 200 /\ r.data = last.token.userId
    /\ Ready =>
          \A u \in DOMAIN developers, pw \in LoginPasswords :
              LET r == LoginHandler(LoginBody(developers[u].email, pw, "Developer"),
                                    developers, employers)
              IN r.status = 200 =>
                    \A req \in Carrying(r.token) :
                        MeHandler(req, developers, employers).status = 200
    /\ Ready =>
          \A h \in AllWireTokens \ {NoToken}, c \in AllWireTokens, a \in AllWireTokens :
              LET both == MeHandler(Request(<<"Bearer", h>>, c, a), developers, employers)
                  alone == MeHandler(Request(<<"Bearer", h>>, NoToken, NoToken), developers, employers)
              IN /\ both = alone
                 /\ ~NamesAccount(h, developers, employers) => both.status = 401

\* C20 happens: a request with an invalid token in the header and a valid
\* one in the cookie was refused with 401.
C20_Witness ==
    /\ last.op = "me"
    /\ last.status = 401
    /\ last.request.authorization = <<"Bearer", BadToken>>
    /\ NamesAccount(last.request.cookies.token, developers, employers)

----------------------------------------------------------------------------
(* RoleSpec: the routes behind authorizeRole of the job-request, project   *)
(* and developer routers, over the same store.                             *)

MaxRoleRequests == 1
MaxRoleProjects == 1

RoleTokens == {DevCaller("d1"), EmpCaller("e1"), SignedToken("e2", "Admin")}

RoleNext ==
    \/ \E s \in Slots : CreateBegin(s, RoleTokens, FrameCreateBodies, MaxRoleRequests)
    \/ \E s \in Slots : CreateSteps(s)
    \/ \E s \in Slots : DecisionBegin(s, RoleTokens, {1}, DecisionNotes)
    \/ \E s \in Slots : DecisionSteps(s)
    \/ \E s \in Slots : Delete(s, RoleTokens, {1})
    \/ \E s \in Slots : AvailabilityBegin(s, RoleTokens)
    \/ \E s \in Slots : AvailabilityWrite(s)
    \/ \E s \in Slots : ProjectCreateBegin(s, RoleTokens, ProjectCreateBodies, MaxRoleProjects)
    \/ \E s \in Slots : ProjectDeleteBegin(s, RoleTokens, {1})
    \/ \E s \in Slots : ProjectCreateSteps(s)
    \/ \E s \in Slots : ProjectDeleteSteps(s)
    \/ \E s \in Slots : MyProjectsBegin(s, RoleTokens, {[developerId |-> None, page |-> 1, limit |-> 10]})
    \/ \E s \in Slots : ProjectsRead(s)
    \/ Respond

RoleSpec == Init /\ [][RoleNext]_vars

----------------------------------------------------------------------------
(* routes/developers.js: the profile writes. A request body is a function  *)
(* from the keys it carries to their values.                               *)

\* The keys whose schema is Joi.string(): '' is rejected. firstName and
\* lastName carry min(2), "x" standing for a name under 2 characters; phone
\* and city carry no minimum.
StringKeysOk(b) ==
    /\ \A k \in DOMAIN b \cap {"firstName", "lastName"} : b[k] \notin {"", "x"}
    /\ \A k \in DOMAIN b \cap {"phone", "city"} : b[k] # ""

\* Joi.string().uri(): "nourl" stands for a string that is no URI.
UriKeysOk(b) ==
    \A k \in DOMAIN b \cap {"githubUrl", "portfolioUrl"} : b[k] \notin {"", "nourl"}

OtherKeysOk(b) ==
    /\ "skills" \in DOMAIN b => Len(b.skills) >= 1
    /\ "experienceYears" \in DOMAIN b => b.experienceYears >= 0 /\ b.experienceYears <= 50
    /\ "salaryExpectation" \in DOMAIN b => b.salaryExpectation >= 0
    /\ "isAvailable" \in DOMAIN b => b.isAvailable \in BOOLEAN

developerProfileCompleteKeys ==
    {"phone", "city", "skills", "experienceYears", "githubUrl", "portfolioUrl",
     "salaryExpectation"}

developerUpdateKeys == developerProfileCompleteKeys \cup {"firstName", "lastName", "isAvailable"}

\* schemas.developerUpdate and schemas.developerProfileComplete: every key
\* optional, unknown keys rejected.
ValidProfileBody(keys, b) ==
    DOMAIN b \subseteq keys /\ StringKeysOk(b) /\ UriKeysOk(b) /\ OtherKeysOk(b)

\* runValidators: the schema's match /^https?:\/\// on the two URLs.
UrlMatches(b) ==
    \A k \in DOMAIN b \cap {"githubUrl", "portfolioUrl"} : b[k] \in {"https://g", "http://g"}

\* findByIdAndUpdate(id, req.body): the keys of the body are set.
SetFields(doc, b) == [f \in DOMAIN doc |-> IF f \in DOMAIN b THEN b[f] ELSE doc[f]]

ProfileReply(code, msg, devs, completion) ==
    [status |-> code, message |-> msg, devs |-> devs, profileCompletion |-> completion]

\* findByIdAndUpdate(req.user._id, req.body, {runValidators: true}): the
\* keys of the body are set on the caller's document.
SaveProfile(devs, id, body) ==
    IF id \in DOMAIN devs THEN [devs EXCEPT ![id] = SetFields(@, body)] ELSE devs

\* PUT /developers/profile (keys = developerUpdateKeys) and
\* POST /developers/profile/complete (keys = developerProfileCompleteKeys)
ProfileWriteHandler(keys, msg, tok, body, devs, emps) ==
    LET auth == Guard(tok, devs, emps, {"Developer"})
    IN IF ~auth.ok THEN ProfileReply(auth.status, auth.message, devs, None)
       ELSE IF ~ValidProfileBody(keys, body) THEN ProfileReply(400, "Validation error", devs, None)
       ELSE IF ~UrlMatches(body) THEN ProfileReply(500, "Something went wrong!", devs, None)
       ELSE LET saved == SaveProfile(devs, auth.userId, body)
            IN ProfileReply(200, msg, saved, profileCompletion(saved[auth.userId]))

ProfileUpdateHandler(tok, body, devs, emps) ==
    ProfileWriteHandler(developerUpdateKeys, "Profile updated successfully", tok, body, devs, emps)

ProfileCompleteHandler(tok, body, devs, emps) ==
    ProfileWriteHandler(developerProfileCompleteKeys, "Profile completed successfully",
                        tok, body, devs, emps)

----------------------------------------------------------------------------
(* routes/upload.js: POST /upload/resume and POST /upload/profile-picture. *)
(* A file is [mimetype, filename], filename being the name diskStorage     *)
(* gave it; NoFile is a request without the file part.                     *)

NoFile == [mimetype |-> None, filename |-> None]

\* fileFilter: the mime types allowed for the field.
allowedMimes(fieldname) ==
    IF fieldname = "resume" THEN {"application/pdf"}
    ELSE {"image/jpeg", "image/jpg", "image/png", "image/webp"}

\* The field of the form, the field of the document and the directory of
\* each route.
UploadField(route) == IF route = "resume" THEN "resumeUrl" ELSE "profilePicture"

UploadPath(route, file) ==
    (IF route = "resume" THEN "/uploads/resumes/" ELSE "/uploads/profile-pictures/")
    \o file.filename

UploadMessage(route) ==
    IF route = "resume" THEN "Resume uploaded successfully"
    ELSE "Profile picture uploaded successfully"

\* upload.single(field): a file fileFilter refuses is an error, and the
\* handler refuses a request without a file.
UploadCheck(route, file, devs) ==
    IF file = NoFile THEN ProfileReply(400, "No file uploaded", devs, None)
    ELSE IF file.mimetype \notin allowedMimes(route)
         THEN ProfileReply(500, "Something went wrong!", devs, None)
    ELSE ProfileReply(200, UploadMessage(route), devs, None)

\* Developer.findByIdAndUpdate(req.user._id, {resumeUrl}) or {profilePicture}
SaveUpload(devs, id, route, file) ==
    IF id \in DOMAIN devs
    THEN [devs EXCEPT ![id][UploadField(route)] = UploadPath(route, file)]
    ELSE devs

UploadHandler(route, tok, file, devs, emps) ==
    LET auth == Guard(tok, devs, emps, {"Developer"})
        chk == UploadCheck(route, file, devs)
    IN IF ~auth.ok THEN ProfileReply(auth.status, auth.message, devs, None)
       ELSE IF chk.status # 200 THEN chk
       ELSE [chk EXCEPT !.devs = SaveUpload(devs, auth.userId, route, file)]

----------------------------------------------------------------------------
(* routes/developers.js, routes/employers.js: the GET routes of one path   *)
(* segment, GET /:id and GET /profile.                                     *)

AccountReply(code, msg, account) == [status |-> code, message |-> msg, account |-> account]

\* GET /developers/:id and GET /employers/:id: no authentication; account is
\* the account the reply carries.
AccountGetHandler(kind, id, devs, emps) ==
    IF id \notin ObjectIds THEN AccountReply(500, "Something went wrong!", None)
    ELSE IF id \notin DOMAIN Accounts(kind, devs, emps)
         THEN AccountReply(404, kind \o " not found", None)
    ELSE AccountReply(200, None, id)

\* GET /developers/profile and GET /employers/profile
OwnProfileHandler(kind, tok, devs, emps) ==
    LET auth == Guard(tok, devs, emps, {kind})
    IN IF ~auth.ok THEN AccountReply(auth.status, auth.message, None)
       ELSE AccountReply(200, None, auth.userId)

\* The GET routes in the order router.get registers them.
GetRoutes == <<"/:id", "/profile">>

RouteMatches(route, segment) == route = "/:id" \/ segment = "profile"

\* Express hands the request to the first route that matches its path.
AccountsGet(kind, tok, segment, devs, emps) ==
    LET first == CHOOSE k \in 1..Len(GetRoutes) :
                    /\ RouteMatches(GetRoutes[k], segment)
                    /\ \A j \in 1..(k - 1) : ~RouteMatches(GetRoutes[j], segment)
    IN IF GetRoutes[first] = "/:id" THEN AccountGetHandler(kind, segment, devs, emps)
       ELSE OwnProfileHandler(kind, tok, devs, emps)

----------------------------------------------------------------------------
(* ProfileSpec: developers write their profiles and upload their files,    *)
(* and accounts are read.                                                  *)

ProfileBodies ==
    {[experienceYears |-> n] : n \in {0, 3, 51}}
    \cup {[githubUrl |-> v] : v \in {"https://g", "ftp://g"}}
    \cup {[firstName |-> "x"], [phone |-> "x"], [email |-> "z@x.com"]}

ProfileTokens == {NoToken, DevCaller("d1"), EmpCaller("e1")}

UploadRoutes == {"resume", "profilePicture"}

Files ==
    {NoFile, [mimetype |-> "application/pdf", filename |-> "f1"],
     [mimetype |-> "image/png", filename |-> "f2"]}

ProfileResult(op, r, completion) == Result(op, r, {}) @@ [profileCompletion |-> completion]

\* PUT /developers/profile and POST /developers/profile/complete:
\* authenticateToken, authorizeRole('Developer') and validate(schema).
ProfileWriteBegin(s, op, keys, msg, toks, bodies) ==
    \E tok \in toks, body \in bodies :
        LET auth == Guard(tok, developers, employers, {"Developer"})
        IN /\ FreeSlot(s) /\ last = NoResponse
           /\ IF ~auth.ok
              THEN /\ inflight' = [inflight EXCEPT ![s] = Idle]
                   /\ last' = ProfileResult(op, auth, None)
              ELSE IF ~ValidProfileBody(keys, body)
              THEN /\ inflight' = [inflight EXCEPT ![s] = Idle]
                   /\ last' = ProfileResult(op, ProfileReply(400, "Validation error",
                                                             developers, None), None)
              ELSE Continue(s, [pc |-> "profileSave", op |-> op, message |-> msg,
                                userId |-> auth.userId, body |-> body])
           /\ UNCHANGED <<developers, employers, jobRequests, projects, now>>

ProfileUpdateBegin(s, toks, bodies) ==
    ProfileWriteBegin(s, "profileUpdate", developerUpdateKeys, "Profile updated successfully",
                      toks, bodies)

ProfileCompleteBegin(s, toks, bodies) ==
    ProfileWriteBegin(s, "profileComplete", developerProfileCompleteKeys,
                      "Profile completed successfully", toks, bodies)

\* Developer.findByIdAndUpdate(req.user._id, req.body, {runValidators}) and
\* the response; profile/complete answers the document's profileCompletion.
ProfileSave(s) ==
    LET req == inflight[s]
        saved == SaveProfile(developers, req.userId, req.body)
    IN /\ At(s, "profileSave")
       /\ inflight' = [inflight EXCEPT ![s] = Idle]
       /\ IF ~UrlMatches(req.body)
          THEN /\ developers' = developers
               /\ last' = ProfileResult(req.op, ProfileReply(500, "Something went wrong!",
                                                             developers, None), None)
          ELSE /\ developers' = saved
               /\ last' = ProfileResult(req.op, ProfileReply(200, req.message, saved, None),
                                        IF req.op = "profileComplete"
                                        THEN profileCompletion(saved[req.userId]) ELSE None)
       /\ UNCHANGED <<employers, jobRequests, projects, now>>

\* POST /upload/resume and POST /upload/profile-picture: authenticateToken
\* and authorizeRole('Developer').
UploadBegin(s) ==
    \E tok \in ProfileTokens, route \in UploadRoutes, file \in Files :
        LET auth == Guard(tok, developers, employers, {"Developer"})
        IN /\ FreeSlot(s) /\ last = NoResponse
           /\ IF ~auth.ok
              THEN /\ inflight' = [inflight EXCEPT ![s] = Idle]
                   /\ last' = ProfileResult("upload", auth, None)
              ELSE Continue(s, [pc |-> "uploadParse", route |-> route, file |-> file,
                                userId |-> auth.userId])
           /\ UNCHANGED <<developers, employers, jobRequests, projects, now>>

\* upload.single(field) has read the form, and the handler checks req.file.
UploadParse(s) ==
    LET req == inflight[s]
        chk == UploadCheck(req.route, req.file, developers)
    IN /\ At(s, "uploadParse")
       /\ IF chk.status # 200
          THEN /\ inflight' = [inflight EXCEPT ![s] = Idle]
               /\ last' = ProfileResult("upload", chk, None)
          ELSE Continue(s, [req EXCEPT !.pc = "uploadSave"])
       /\ UNCHANGED <<developers, employers, jobRequests, projects, now>>

\* Developer.findByIdAndUpdate(req.user._id, {resumeUrl}) and the response.
UploadSave(s) ==
    LET req == inflight[s]
    IN /\ At(s, "uploadSave")
       /\ developers' = SaveUpload(developers, req.userId, req.route, req.file)
       /\ inflight' = [inflight EXCEPT ![s] = Idle]
       /\ last' = ProfileResult("upload", ProfileReply(200, UploadMessage(req.route),
                                                       developers, None), None)
       /\ UNCHANGED <<employers, jobRequests, projects, now>>

\* GET /developers/<segment> and GET /employers/<segment>. The route the
\* request reaches is GET /:id, whose handler awaits findById once; it would
\* await the account lookup of authenticateToken first on GET /profile.
\* last.request is the path segment and last.caller the account the token
\* was issued to; last.data holds the account returned.
\* The populate query of GET /developers/:id (DeveloperGetPopulate) is issued
\* for a projects list that holds ids; in ProfileSpec, which takes this
\* action, no developer has a project.
AccountsGetRequest(toks, segments) ==
    \E kind \in Kinds, tok \in toks, segment \in segments :
        LET r == AccountsGet(kind, tok, segment, developers, employers)
            answer == [op |-> "accountsGet", status |-> r.status, message |-> r.message,
                       data |-> {r.account} \ {None}, request |-> segment,
                       caller |-> tok.userId]
        IN /\ last = NoResponse
           /\ last' = answer
           /\ UNCHANGED <<developers, employers, jobRequests, inflight, projects, now>>

ProfileNext ==
    \/ \E s \in Slots : ProfileUpdateBegin(s, ProfileTokens, ProfileBodies)
    \/ \E s \in Slots : ProfileCompleteBegin(s, ProfileTokens, ProfileBodies)
    \/ \E s \in Slots : ProfileSave(s)
    \/ \E s \in Slots : UploadBegin(s)
    \/ \E s \in Slots : UploadParse(s)
    \/ \E s \in Slots : UploadSave(s)
    \/ AccountsGetRequest({DevCaller("d1")}, {"profile", "d1", "x"})
    \/ Respond

ProfileSpec == Init /\ [][ProfileNext]_vars

----------------------------------------------------------------------------
(* Properties of the role guard *)

InsufficientPermissions == "Access denied. Insufficient permissions."

\* One call of a role-guarded route: the roles of its authorizeRole, the
\* reply, and whether the call changed a stored collection.
RoleCall(allowed, r, changed) ==
    [allowed |-> allowed, status |-> r.status, message |-> r.message, changed |-> changed]

JobRequestRoleCalls(tok) ==
    {LET r == CreateHandler(tok, x[1], developers, employers, jobRequests, x[2])
     IN RoleCall({"Employer"}, r, r.jrs # jobRequests) :
        x \in (CreateBodies \cup FrameCreateBodies) \X SaveTimes(now)}
    \cup {LET r == AcceptHandler(tok, id, "n1", developers, employers, jobRequests)
          IN RoleCall({"Developer"}, r, r.jrs # jobRequests) : id \in ReqIds}
    \cup {LET r == RejectHandler(tok, id, "n1", developers, employers, jobRequests)
          IN RoleCall({"Developer"}, r, r.jrs # jobRequests) : id \in ReqIds}
    \cup {LET r == DeleteHandler(tok, id, developers, employers, jobRequests)
          IN RoleCall({"Admin"}, r, r.jrs # jobRequests) : id \in ReqIds}

ProjectRoleCalls(tok) ==
    {LET r == ProjectCreateHandler(tok, x[1], developers, employers, projects, x[2])
     IN RoleCall({"Developer"}, r, r.projs # projects \/ r.devs # developers) :
        x \in ProjectCreateBodies \X SaveTimes(now)}
    \cup {LET r == ProjectUpdateHandler(tok, x[1], x[2], developers, employers, projects)
          IN RoleCall({"Developer"}, r, r.projs # projects \/ r.devs # developers) :
             x \in ProjIds \X ProjectUpdateBodies}
    \cup {LET r == ProjectDeleteHandler(tok, id, developers, employers, projects)
          IN RoleCall({"Developer"}, r, r.projs # projects \/ r.devs # developers) :
             id \in ProjIds}
    \cup {RoleCall({"Developer"}, r, FALSE) :
            r \in UNION {MyProjectsHandler(tok, query, developers, employers, projects) :
                           query \in ProjectQueries}}

AccountRoleCalls(tok) ==
    {LET r == AvailabilityHandler(tok, b, developers, employers)
     IN RoleCall({"Developer"}, r, r.devs # developers) : b \in AvailabilityBodies}
    \cup {LET r == ProfileUpdateHandler(tok, b, developers, employers)
          IN RoleCall({"Developer"}, r, r.devs # developers) : b \in ProfileBodies}
    \cup {LET r == ProfileCompleteHandler(tok, b, developers, employers)
          IN RoleCall({"Developer"}, r, r.devs # developers) : b \in ProfileBodies}
    \cup {LET r == UploadHandler(x[1], tok, x[2], developers, employers)
          IN RoleCall({"Developer"}, r, r.devs # developers) : x \in UploadRoutes \X Files}
    \cup {LET r == AccountDeleteHandler(x[1], tok, x[2], developers, employers)
          IN RoleCall({"Admin"}, r, r.devs # developers \/ r.emps # employers) :
             x \in Kinds \X (DevIds \cup EmpIds)}

\* C21: on every route behind authorizeRole, a caller who authenticates with
\* a role outside the route's roles is answered 403 'Access denied.
\* Insufficient permissions.' and no collection changes; a call that
\* succeeds or changes a collection was made by an authenticated caller
\* whose role is one of the route's roles.
C21_RoleGuard ==
    Ready =>
        \A tok \in AllTokens :
            LET auth == authenticateToken(tok, developers, employers)
            IN \A c \in JobRequestRoleCalls(tok) \cup ProjectRoleCalls(tok)
                        \cup AccountRoleCalls(tok) :
                /\ (auth.ok /\ auth.userRole \notin c.allowed) =>
                        /\ c.status = 403
                        /\ c.message = InsufficientPermissions
                        /\ ~c.changed
                /\ (c.changed \/ c.status \in {200, 201}) =>
                        auth.ok /\ auth.userRole \in c.allowed

\* A developer asked to create a job request and was answered 403 by the
\* role guard, while a pending request and a project are stored.
C21_Witness ==
    /\ last.op = "create"
    /\ last.status = 403
    /\ last.message = InsufficientPermissions
    /\ \E i \in DOMAIN jobRequests : IsDoc(jobRequests[i]) /\ jobRequests[i].status = "pending"
    /\ \E i \in DOMAIN projects : IsDoc(projects[i])

----------------------------------------------------------------------------
(* Properties of profileCompletion *)

\* The tracked fields of a document that hold a value: a string that is not
\* empty, a list with an element, a number (0 included).
NonEmptyFields(doc) ==
    {f \in requiredFields \cup optionalFields :
        CASE f = "skills" -> Len(doc.skills) > 0
          [] f = "experienceYears" -> doc.experienceYears # NoNumber
          [] OTHER -> doc[f] \notin {None, ""}}

\* C22: profileCompletion of every developer is an integer in 0..100, and a
\* write after which every tracked field that held a value still holds one
\* (experienceYears = 0 included) does not lower it.
C22_CompletionNeverDrops ==
    [][\A d \in DOMAIN developers :
          /\ profileCompletion(developers'[d]) \in 0..100
          /\ NonEmptyFields(developers[d]) \subseteq NonEmptyFields(developers'[d])
                => profileCompletion(developers[d]) <= profileCompletion(developers'[d])]_vars

----------------------------------------------------------------------------
(* routes/search.js: POST /search/developers. A body is                    *)
(* [skills, isAvailable, minExperience, page, limit, sortBy, sortOrder],   *)
(* a key that is absent holding None (NoNumber for minExperience); skills  *)
(* = <<>> stands for an empty list and for no skills key, which the        *)
(* handler treats alike.                                                   *)

\* schemas.developerSearch
ValidSearch(b) ==
    /\ b.isAvailable \in JsonBool
    /\ b.minExperience = NoNumber \/ b.minExperience >= 0
    /\ b.page >= 1
    /\ b.limit >= 1 /\ b.limit <= 100
    /\ b.sortBy \in {None, "name", "experienceYears", "createdAt"}
    /\ b.sortOrder \in {None, "asc", "desc"}

\* The filter of the $match stage: isAvailable (true by default), skills
\* $in when skills are given, experienceYears $gte when a minimum is given.
SearchMatches(b, doc) ==
    /\ doc.isAvailable = (b.isAvailable # "false")
    /\ Len(b.skills) > 0 => SeqSet(doc.skills) \cap SeqSet(b.skills) # {}
    /\ b.minExperience # NoNumber =>
            doc.experienceYears # NoNumber /\ doc.experienceYears >= b.minExperience

\* $size of $setIntersection: ['$skills', skills || []]
skillMatchCount(b, doc) ==
    Cardinality(SeqSet(doc.skills) \cap SeqSet(b.skills))

\* The value the second sort key reads: no document has a field 'name', a
\* missing experienceYears sorts below every number, createdAt is the time
\* the account's save() was called at.
SortValue(devs, id, sortBy) ==
    CASE sortBy = "name" -> 0
      [] sortBy = "experienceYears" -> devs[id].experienceYears
      [] OTHER -> devs[id].createdAt

\* A $sort that takes the requested field before skillMatchCount.
SortedBeforeFieldFirst(b, devs, x, y) ==
    LET vx == SortValue(devs, x, b.sortBy)
        vy == SortValue(devs, y, b.sortBy)
    IN \/ (IF b.sortOrder = "asc" THEN vx < vy ELSE vx > vy)
       \/ vx = vy /\ skillMatchCount(b, devs[x]) >= skillMatchCount(b, devs[y])

\* $sort: {skillMatchCount: -1, [sortBy]: sortOrder === 'asc' ? 1 : -1}:
\* x may stand before y.
SortedBefore(b, devs, x, y) ==
    LET cx == skillMatchCount(b, devs[x])
        cy == skillMatchCount(b, devs[y])
        vx == SortValue(devs, x, b.sortBy)
        vy == SortValue(devs, y, b.sortBy)
    IN \/ cx > cy
       \/ cx = cy /\ (IF b.sortOrder = "asc" THEN vx <= vy ELSE vx >= vy)

\* The orders the $sort stage may produce: documents equal in both keys
\* come in either order.
Rankings(b, devs) ==
    LET found == {id \in DOMAIN devs : SearchMatches(b, devs[id])}
        n == Cardinality(found)
    IN {f \in [1..n -> found] :
            /\ \A i, j \in 1..n : i # j => f[i] # f[j]
            /\ \A i, j \in 1..n : i < j => SortedBefore(b, devs, f[i], f[j])}

\* $skip: skip, $limit: limit
SkipLimit(seq, skip, limit) ==
    [k \in 1..(IF Len(seq) - skip > limit THEN limit
               ELSE IF Len(seq) > skip THEN Len(seq) - skip ELSE 0) |-> seq[skip + k]]

\* Developer.aggregate(pipeline): the pages the pipeline may return.
SearchPages(body, devs) ==
    {SkipLimit(ranked, (body.page - 1) * body.limit, body.limit) : ranked \in Rankings(body, devs)}

\* Developer.countDocuments(filter)
SearchTotal(body, devs) ==
    Cardinality({id \in DOMAIN devs : SearchMatches(body, devs[id])})

\* The responses the route may give when nothing is written between its
\* two reads: data is the page, total the countDocuments of the filter.
SearchHandler(body, devs) ==
    IF ~ValidSearch(body)
    THEN {[status |-> 400, message |-> "Validation error", data |-> <<>>, total |-> None]}
    ELSE {[status |-> 200, message |-> None,
           data |-> SkipLimit(ranked, (body.page - 1) * body.limit, body.limit),
           total |-> Len(ranked)] : ranked \in Rankings(body, devs)}

----------------------------------------------------------------------------
(* SearchSpec: developers set their skills, experience and availability,   *)
(* and anyone searches. The two developers were created in the same        *)
(* millisecond or one after the other.                                     *)

SearchProfileBodies ==
    {[skills |-> <<"Go", "Rust">>, experienceYears |-> 3], [skills |-> <<"Go">>, experienceYears |-> 1]}

SearchBody(skills, isAvailable, minExperience, page, limit, sortBy, sortOrder) ==
    [skills |-> skills, isAvailable |-> isAvailable, minExperience |-> minExperience,
     page |-> page, limit |-> limit, sortBy |-> sortBy, sortOrder |-> sortOrder]

SearchBodies ==
    {SearchBody(<<"Go", "Rust">>, None, NoNumber, 1, 10, "experienceYears", "asc"),
     SearchBody(<<"Go", "Rust">>, "false", NoNumber, 1, 10, None, None),
     SearchBody(<<"Rust">>, None, 2, 2, 1, "name", "desc"),
     SearchBody(<<"Go", "Rust">>, None, NoNumber, 0, 10, None, None),
     SearchBody(<<"Go", "Rust">>, None, NoNumber, 1, 10, "skills", None)}

SearchTokens == {DevCaller(d) : d \in DevIds}

\* One of the two reads of the search (Promise.all) is answered: the
\* requests that may follow.
SearchAnswers(req, read, devs) ==
    IF read = "aggregate"
    THEN {[req EXCEPT !.waiting = @ \ {read}, !.data = page] : page \in SearchPages(req.body, devs)}
    ELSE {[req EXCEPT !.waiting = @ \ {read}, !.total = SearchTotal(req.body, devs)]}

\* POST /search/developers: validate(schemas.developerSearch); the handler
\* issues aggregate and countDocuments together, and the first of them is
\* answered. last.request is the body of the search, last.data the page
\* returned.
SearchBegin(s) ==
    \E body \in SearchBodies, read \in {"aggregate", "count"} :
        /\ FreeSlot(s) /\ last = NoResponse
        /\ IF ~ValidSearch(body)
           THEN /\ inflight' = inflight
                /\ last' = [op |-> "search", status |-> 400, message |-> "Validation error",
                            data |-> <<>>, total |-> None, request |-> body]
           ELSE \E got \in SearchAnswers([pc |-> "searchRead", body |-> body,
                                           waiting |-> {"aggregate", "count"},
                                           data |-> <<>>, total |-> 0], read, developers) :
                    Continue(s, got)
        /\ UNCHANGED <<developers, employers, jobRequests, projects, now>>

\* The other read of the search is answered, and the response is sent.
SearchRead(s) ==
    /\ At(s, "searchRead")
    /\ \E read \in inflight[s].waiting :
          \E got \in SearchAnswers(inflight[s], read, developers) :
              /\ inflight' = [inflight EXCEPT ![s] = Idle]
              /\ last' = [op |-> "search", status |-> 200, message |-> None,
                          data |-> got.data, total |-> got.total, request |-> got.body]
    /\ UNCHANGED <<developers, employers, jobRequests, projects, now>>

SearchNext ==
    \/ \E s \in Slots : ProfileUpdateBegin(s, SearchTokens, SearchProfileBodies)
    \/ \E s \in Slots : ProfileSave(s)
    \/ \E s \in Slots : AvailabilityBegin(s, {DevCaller("d2")})
    \/ \E s \in Slots : AvailabilityWrite(s)
    \/ \E s \in Slots : SearchBegin(s)
    \/ \E s \in Slots : SearchRead(s)
    \/ Respond

SearchInit == \E t \in SaveTimes(1) : InitAt(t)

SearchSpec == SearchInit /\ [][SearchNext]_vars

----------------------------------------------------------------------------
(* Properties of the search *)

AllSearchBodies ==
    {SearchBody(sk, av, NoNumber, pg, lim, sb, so) :
        sk \in {<<>>, <<"Go">>, <<"Go", "Rust">>, <<"Rust", "Go", "Go">>},
        av \in {None, "false"}, pg \in {1, 2}, lim \in {1, 2},
        sb \in {None, "name", "experienceYears", "createdAt"}, so \in {None, "asc", "desc"}}

SearchFound(b) == {id \in DOMAIN developers : SearchMatches(b, developers[id])}

\* The number of skills of the developer that the search asks for.
Overlap(b, id) == Cardinality(SeqSet(developers[id].skills) \cap SeqSet(b.skills))

\* C23: in every response of the search the page is cut out of a ranking by
\* overlap: the developer at place g of the ranking (g counted over all
\* pages) is a match, every match with a larger overlap stands before place
\* g and at least g matches overlap as much, whatever sortBy and sortOrder
\* are; the sort field orders only developers of equal overlap; the page
\* holds the places after (page - 1) * limit, at most limit of them.
C23_OverlapRanksFirst ==
    Ready =>
        \A b \in AllSearchBodies : \A r \in SearchHandler(b, developers) :
            LET skip == (b.page - 1) * b.limit
                found == SearchFound(b)
                left == IF Cardinality(found) > skip THEN Cardinality(found) - skip ELSE 0
            IN /\ r.status = 200
               /\ Len(r.data) = IF left > b.limit THEN b.limit ELSE left
               /\ \A k \in 1..Len(r.data) :
                    /\ r.data[k] \in found
                    /\ Cardinality({x \in found : Overlap(b, x) > Overlap(b, r.data[k])})
                            <= skip + k - 1
                    /\ Cardinality({x \in found : Overlap(b, x) >= Overlap(b, r.data[k])})
                            >= skip + k
               /\ \A j, k \in 1..Len(r.data) :
                    j < k =>
                        /\ r.data[j] # r.data[k]
                        /\ Overlap(b, r.data[j]) >= Overlap(b, r.data[k])
                        /\ Overlap(b, r.data[j]) = Overlap(b, r.data[k]) =>
                              LET vj == SortValue(developers, r.data[j], b.sortBy)
                                  vk == SortValue(developers, r.data[k], b.sortBy)
                              IN IF b.sortOrder = "asc" THEN vj <= vk ELSE vj >= vk

\* A search by experienceYears ascending returned the developer with both
\* skills before the one with a single skill and fewer years.
C23_Witness ==
    /\ last.op = "search"
    /\ last.status = 200
    /\ last.request.sortBy = "experienceYears"
    /\ last.request.sortOrder = "asc"
    /\ Len(last.data) = 2
    /\ Overlap(last.request, last.data[1]) = 2
    /\ Overlap(last.request, last.data[2]) = 1
    /\ developers[last.data[1]].experienceYears > developers[last.data[2]].experienceYears

----------------------------------------------------------------------------
(* Properties of the profile routes *)

\* C24: GET /developers/profile with the token of a developer answers 200
\* with that developer's account, and GET /employers/profile with the token
\* of an employer answers 200 with that employer's account.
C24_ProfileReachesOwnAccount ==
    Ready =>
        /\ \A d \in DOMAIN developers :
              LET r == AccountsGet("Developer", DevCaller(d), "profile", developers, employers)
              IN r.status = 200 /\ r.account = d
        /\ \A e \in DOMAIN employers :
              LET r == AccountsGet("Employer", EmpCaller(e), "profile", developers, employers)
              IN r.status = 200 /\ r.account = e

----------------------------------------------------------------------------
(* AvailConcSpec: creates in flight while developers switch their          *)
(* availability.                                                           *)

\* The creates of AvailConcSpec: for both developers and for a developerId
\* that is no ObjectId.
AvailCreateBodies ==
    ConcCreateBodies \cup {CreateBody(BadId, "t1", 1, None, None, None, FALSE)}

AvailConcNext ==
    \/ \E s \in Slots : CreateBegin(s, ConcTokens, AvailCreateBodies, MaxConcRequests)
    \/ \E s \in Slots : CreateSteps(s)
    \/ \E s \in Slots : AvailabilityBegin(s, ConcTokens)
    \/ \E s \in Slots : AvailabilityWrite(s)
    \/ Respond

AvailConcSpec == Init /\ [][AvailConcNext]_vars

\* C25: in the step that inserts a JobRequest, the developer it names has
\* isAvailable = true, whatever requests are handled at the same time.
C25_AvailableWhenInserted ==
    [][\A i \in DOMAIN jobRequests' \ DOMAIN jobRequests :
          developers'[jobRequests'[i].developerId].isAvailable]_vars

----------------------------------------------------------------------------
(* Properties of the credential *)

AllLoginBodies ==
    {LoginBody(email, pw, kind) :
        email \in RawEmails \cup {"z@x.com"}, pw \in LoginPasswords, kind \in Kinds}

\* C26: getPublicProfile of every stored account of either kind has no
\* password key, and neither has the data of any signup response (201) or
\* login response (200), whatever signups, logins and password changes came
\* before.
C26_ProfileHidesPassword ==
    Ready =>
        /\ \A kind \in Kinds :
              \A u \in DOMAIN Accounts(kind, developers, employers) :
                 LET doc == Accounts(kind, developers, employers)[u]
                 IN /\ "password" \notin DOMAIN getPublicProfile(doc)
                    /\ \A f \in DOMAIN doc \ {"password"} : getPublicProfile(doc)[f] = doc[f]
        /\ \A kind \in Kinds, body \in ValidSignupBodies, at \in SaveTimes(now) :
              LET r == SignupHandler(kind, body, developers, employers, at)
              IN r.status = 201 => "password" \notin DOMAIN r.data
        /\ \A body \in AllLoginBodies :
              LET r == LoginHandler(body, developers, employers)
              IN r.status = 200 => "password" \notin DOMAIN r.data

\* Developer d1 changed the password and then logged in: the response
\* carries the profile of d1, and the stored hash is that of the new
\* password.
C26_Witness ==
    /\ last.op = "login"
    /\ last.status = 200
    /\ last.token = DevCaller("d1")
    /\ last.data # NoDoc
    /\ last.data.email = "a@x.com"
    /\ developers["d1"].password = bcryptHash("secret2")

AllChangePasswordBodies ==
    {ChangePasswordBody(c, n) :
        c \in LoginPasswords \cup {"long72a"},
        n \in {"secret1", "secret2", "secret3", "long72a", "long72b"}}

\* What C27 says of every change-password by an authenticated account:
\* with a currentPassword that is not the stored one it answers 400 and
\* changes nothing; with the stored one it answers 200, and in the state it
\* leaves a login of the account with the new password answers 200 with the
\* account's token, a login with the old password answers 401 when the two
\* differ (byBytes: when they differ in their first 72 bytes, and 200 when
\* they do not), and nothing but the account's password has changed.
ChangePasswordRoundTrip(byBytes) ==
    \A tok \in AllTokens, body \in AllChangePasswordBodies :
        LET auth == authenticateToken(tok, developers, employers)
            r == ChangePasswordHandler(tok, body, developers, employers)
        IN auth.ok =>
            LET kind == auth.userRole
                other == IF kind = "Developer" THEN "Employer" ELSE "Developer"
                u == auth.userId
                doc == Accounts(kind, developers, employers)[u]
                after == Accounts(kind, r.devs, r.emps)
                new == LoginHandler(LoginBody(doc.email, body.newPassword, kind),
                                    r.devs, r.emps)
                old == LoginHandler(LoginBody(doc.email, body.currentPassword, kind),
                                    r.devs, r.emps)
            IN IF doc.password # bcryptHash(body.currentPassword)
               THEN r.status = 400 /\ r.devs = developers /\ r.emps = employers
               ELSE /\ r.status = 200
                    /\ new.status = 200 /\ new.token = SignedToken(u, kind)
                    /\ IF byBytes
                       THEN old.status = IF Bytes72(body.newPassword) # Bytes72(body.currentPassword)
                                         THEN 401 ELSE 200
                       ELSE body.newPassword # body.currentPassword => old.status = 401
                    /\ Accounts(other, r.devs, r.emps) = Accounts(other, developers, employers)
                    /\ \A v \in DOMAIN after :
                          after[v] = IF v = u
                                     THEN [doc EXCEPT !.password = bcryptHash(body.newPassword)]
                                     ELSE Accounts(kind, developers, employers)[v]

\* C27 as stated: after a successful change-password, a login with the old
\* password fails with 401 whenever the old and the new password differ.
C27_OldPasswordFails == Ready => ChangePasswordRoundTrip(FALSE)

\* C27 amended: wrong currentPassword: 400 and nothing changes; matching
\* currentPassword: 200, after which a login with the new password succeeds
\* and a login with the old password fails with 401 when the two differ in
\* their first 72 bytes (and succeeds when they differ only after them).
C27_ChangePasswordRoundTrip == Ready => ChangePasswordRoundTrip(TRUE)

\* An account changed its password to a different one: the request was
\* answered 200 and the stored hash is that of the new password.
C27_Witness ==
    /\ last.op = "changePassword"
    /\ last.status = 200
    /\ last.request.newPassword # last.request.currentPassword
    /\ last.caller.role = "Developer"
    /\ developers[last.caller.userId].password = bcryptHash(last.request.newPassword)

\* C28: POST /auth/logout changes no stored state, and after a logout that
\* was answered 200 the same token, sent in the Authorization header with
\* the cookies cleared, is accepted by authenticateToken and by the
\* protected routes that need no further condition (GET /auth/me, GET
\* /job-requests, a second logout).
C28_LogoutKeepsToken ==
    Ready =>
        \A tok \in AllTokens :
            LET r == LogoutHandler(tok, developers, employers)
                bearer == Request(<<"Bearer", tok>>, NoToken, NoToken)
            IN /\ r.devs = developers /\ r.emps = employers
               /\ r.status = 200 =>
                    /\ r.token = NoToken
                    /\ authenticateToken(TokenOf(bearer), r.devs, r.emps).ok
                    /\ MeHandler(bearer, r.devs, r.emps).status = 200
                    /\ LogoutHandler(tok, r.devs, r.emps).status = 200
                    /\ \A q \in ListQueries :
                          \A page \in ListHandler(tok, q, r.devs, r.emps, jobRequests) :
                              page.status = 200

\* Developer d1 logged out with a valid token and was answered 200; the
\* account is still stored.
C28_Witness ==
    /\ last.op = "logout"
    /\ last.status = 200
    /\ last.caller = DevCaller("d1")
    /\ "d1" \in DOMAIN developers

----------------------------------------------------------------------------
(* Properties of the parties and terms of a JobRequest *)

FixedFields ==
    {"employerId", "developerId", "jobTitle", "jobDescription", "salaryOffer", "salaryType"}

\* C29: the JobRequest a create inserts has the id of the authenticated
\* Employer who sent it as employerId and the developer and terms of the
\* body (a body with a key outside the create schema, such as employerId,
\* is refused); no PUT, accept or reject by any caller with any body changes
\* the employerId, developerId, jobTitle, jobDescription, salaryOffer or
\* salaryType of a stored request.
C29_PartiesAndTermsFixed ==
    Ready =>
        /\ \A tok \in AllTokens, body \in CreateBodies \cup FrameCreateBodies,
              at \in SaveTimes(now) :
              LET r == CreateHandler(tok, body, developers, employers, jobRequests, at)
                  auth == authenticateToken(tok, developers, employers)
              IN /\ body.extra => r.status # 201 /\ r.jrs = jobRequests
                 /\ r.status = 201 =>
                      LET doc == r.jrs[NextId(jobRequests)]
                      IN /\ auth.ok /\ auth.userRole = "Employer"
                         /\ doc.employerId = auth.userId
                         /\ doc.developerId = body.developerId
                         /\ doc.jobTitle = body.jobTitle
                         /\ doc.jobDescription = body.jobDescription
                         /\ doc.salaryOffer = body.salaryOffer
                         /\ doc.salaryType \in {body.salaryType, DefaultSalaryType}
        /\ \A i \in Stored, tok \in AllTokens, body \in SomeUpdateBodies \cup FrameUpdateBodies :
              \A r \in WriteReplies(tok, i, body) :
                  /\ IsDoc(r.jrs[i])
                  /\ \A f \in FixedFields : r.jrs[i][f] = jobRequests[i][f]
                  /\ jobRequests[i].employerId \in DOMAIN employers

\* The developer accepted the request of employer e1 with a note: the
\* request is stored as accepted with the note, after an employer's create.
C29_Witness ==
    /\ last.op = "accept"
    /\ last.status = 200
    /\ \E i \in last.data :
          /\ jobRequests[i].status = "accepted"
          /\ jobRequests[i].developerNotes = "n2"
          /\ jobRequests[i].employerId = "e1"
          /\ jobRequests[i].jobTitle = "t1"

TerminalOfPair(e, d) ==
    {i \in Stored : /\ jobRequests[i].employerId = e
                    /\ jobRequests[i].developerId = d
                    /\ jobRequests[i].status \in Terminal}

\* C30: a pair (employerId, developerId) has at most one pending request,
\* next to any number of accepted, rejected or withdrawn ones; a create of
\* the pair for an available developer fails as a duplicate exactly when the
\* pair has a pending request, and when
\* all requests of the pair are accepted, rejected or withdrawn and the
\* developer is available, a create by that employer for that developer
\* answers 201 and inserts a pending request, the earlier ones unchanged.
C30_OnlyPendingBlocks ==
    Ready =>
        \A e \in EmpIds, d \in DevIds, at \in SaveTimes(now) :
            LET r == CreateHandler(EmpCaller(e), CreateBody(d, "t1", 1, None, None, None, FALSE),
                                   developers, employers, jobRequests, at)
            IN /\ Cardinality(PendingOfPair(e, d)) <= 1
               /\ r = DuplicatePending(jobRequests)
                     <=> (PendingOfPair(e, d) # {} /\ developers[d].isAvailable)
               /\ (TerminalOfPair(e, d) # {} /\ PendingOfPair(e, d) = {}
                      /\ developers[d].isAvailable)
                  => /\ r.status = 201
                     /\ InsertedOne(r, e, d)
                     /\ \A i \in TerminalOfPair(e, d) : r.jrs[i] = jobRequests[i]

====
